---- MODULE Spec2Model ----
(***************************************************************************)
(* A model of the trading core of botKidSkeith-server: the position        *)
(* service (services/position.ts), the setInterval scheduler               *)
(* (services/scheduler.ts: position monitor, order sync, scheduled         *)
(* analysis), the queue analysis worker (jobs/index.ts) and the routes     *)
(* that write signals, trades and positions.                               *)
(*                                                                         *)
(* The Prisma tables are sequences (a row's id is its index; rows are      *)
(* never deleted).  Every `await` of a handler is a point where another    *)
(* handler may run, so a handler is split into one action per stretch of   *)
(* code between the awaits that matter to the store.                       *)
(***************************************************************************)
EXTENDS Integers, Sequences, FiniteSets, TLC

VARIABLES
    positions,        \* prisma.position: Seq of Position rows
    trades,           \* prisma.trade: Seq of Trade rows
    signals,          \* prisma.signal: Seq of Signal rows
    settings,         \* prisma.userSettings: [Users -> settings row]
    apiKeys,          \* [Users -> BOOLEAN]: user.indodaxApiKey and indodaxSecretKey both set
    exchange,         \* Indodax: Seq of order states, indexed by exchange order id
    tickers,          \* Indodax: [Pairs -> optional last price] (getSummaries)
    now,              \* Date.now(), in minutes
    lastAnalysisTime, \* scheduler.ts: Map userId -> time of last analysis (0: no entry)
    monitor,          \* [MonitorRuns -> locals of one checkPositionsForSLTP invocation]
    sync,             \* [SyncRuns -> locals of one syncPendingOrders invocation]
    sched,            \* locals of the runScheduledAnalysis invocation
    worker,           \* [Workers -> locals of one analysisWorker job being processed]
    lastCall,         \* history: the last call of a position-service function and its outcome
    closeWrites,      \* history: [position id -> number of closePosition updates applied]
    orch,             \* scheduler.ts: isRunning, the three interval handles, the armed timers
    cancel,           \* locals of the DELETE /trades/:id request being handled
    omw,              \* locals of the order-monitor job being processed
    approve           \* [Requests -> locals of one PATCH /signals/:id request being handled]

storeVars == <<positions, trades, signals>>
userVars  == <<settings, apiKeys>>
envVars   == <<exchange, tickers, now>>
runVars   == <<monitor, sync, sched, worker, lastAnalysisTime>>
histVars  == <<lastCall, closeWrites>>
routeVars == <<cancel, omw, approve>>
procVars  == <<orch, cancel, omw, approve>>
vars == <<positions, trades, signals, settings, apiKeys, exchange, tickers, now,
          lastAnalysisTime, monitor, sync, sched, worker, lastCall, closeWrites, orch,
          cancel, omw, approve>>

----------------------------------------------------------------------------
(* Bounds of the model *)

MaxPositions == 2   \* rows of prisma.position
MaxTrades    == 1   \* rows of prisma.trade
MaxSignals   == 1   \* rows of prisma.signal
MaxCloses    == 2   \* closePosition updates applied to one position
MaxTimers    == 6   \* intervals armed in the event loop
MaxOrders    == 2   \* orders the approve requests place on the exchange
MaxTime      == 70  \* Date.now(), in minutes
MaxSold      == 6   \* coin amount of the SELL orders the exchange has accepted

----------------------------------------------------------------------------
(* Values *)

Users == {"u1", "u2"}
Pairs == {"btc_idr", "eth_idr"}
Prices == {90, 100, 110}
Amounts == {1, 2}
CloseReasons == {"TAKE_PROFIT", "STOP_LOSS", "MANUAL", "SIGNAL"}

\* An optional value (undefined / null in the source) is the empty tuple,
\* a present one a 1-tuple.
None == <<>>
Some(v) == <<v>>
Val(x) == x[1]
Opt(S) == {None} \cup {Some(v) : v \in S}

\* JavaScript truthiness of an optional number: undefined, null and 0 are falsy.
Truthy(x) == x # None /\ Val(x) # 0

\* `x || undefined`
OrUndefined(x) == IF Truthy(x) THEN x ELSE None

RECURSIVE GCD(_, _)
GCD(a, b) == IF b = 0 THEN a ELSE GCD(b, a % b)

Abs(n) == IF n < 0 THEN -n ELSE n

\* The exact quotient n / d (d > 0) as a fraction in lowest terms.
Ratio(n, d) ==
    LET g == GCD(Abs(n), d)
    IN  IF n = 0 THEN <<0, 1>> ELSE <<n \div g, d \div g>>

RECURSIVE SumSeq(_)
SumSeq(s) == IF s = <<>> THEN 0 ELSE Head(s) + SumSeq(Tail(s))

RECURSIVE Reverse(_)
Reverse(s) == IF s = <<>> THEN <<>> ELSE Append(Reverse(Tail(s)), Head(s))

\* The ids (indices) of a table, in ascending order.
Ids(table) == [i \in 1..Len(table) |-> i]

----------------------------------------------------------------------------
(* services/position.ts *)

\* What the callers of openPosition pass: cost = amount * entryPrice, and a
\* stop-loss / take-profit that is absent, 0 or a price.
OpenPositionParams ==
    {[userId |-> u, pair |-> pr, amount |-> a, entryPrice |-> e, cost |-> a * e,
      signalId |-> None, stopLoss |-> sl, takeProfit |-> tp, entryTradeId |-> None] :
        u \in Users, pr \in Pairs, a \in Amounts, e \in {100},
        sl \in Opt({0, 90, 110}), tp \in Opt({0, 90, 110})}

\* openPosition: the row prisma.position.create inserts
openPosition(params) ==
    [userId       |-> params.userId,
     pair         |-> params.pair,
     amount       |-> params.amount,
     entryPrice   |-> params.entryPrice,
     cost         |-> params.cost,
     stopLoss     |-> OrUndefined(params.stopLoss),
     takeProfit   |-> OrUndefined(params.takeProfit),
     signalId     |-> params.signalId,
     entryTradeId |-> params.entryTradeId,
     status       |-> "OPEN",
     exitPrice    |-> None,
     exitAmount   |-> None,
     pnl          |-> None,
     pnlPercent   |-> None,
     closedAt     |-> None,
     closeReason  |-> None,
     exitTradeId  |-> None]

\* closePosition, line 55: prisma.position.findUnique({ where: { id } })
findUniquePosition(positionId) ==
    IF positionId \in 1..Len(positions) THEN Some(positions[positionId]) ELSE None

\* closePosition, line 75: the status the update writes
CloseStatus(position, params) ==
    IF Truthy(params.exitAmount) /\ Val(params.exitAmount) < position.amount
    THEN "PARTIALLY_CLOSED" ELSE "CLOSED"

\* closePosition, line 64: const amount = exitAmount || Number(position.amount)
CloseAmount(position, params) ==
    IF Truthy(params.exitAmount) THEN Val(params.exitAmount) ELSE position.amount

\* closePosition, lines 63-84: the `data` of prisma.position.update, computed
\* from the row `position` that line 55 read
CloseData(position, params, at) ==
    LET entryPriceNum == position.entryPrice
        amount     == CloseAmount(position, params)
        exitValue  == amount * params.exitPrice
        entryValue == amount * entryPriceNum
        pnl        == exitValue - entryValue
        pnlPercent == Ratio((params.exitPrice - entryPriceNum) * 100, entryPriceNum)
    IN  [status      |-> CloseStatus(position, params),
         exitPrice   |-> Some(params.exitPrice),
         exitAmount  |-> Some(amount),
         pnl         |-> Some(pnl),
         pnlPercent  |-> Some(pnlPercent),
         closedAt    |-> Some(at),
         closeReason |-> Some(params.reason),
         exitTradeId |-> params.exitTradeId]

\* prisma.position.update({ where: { id }, data }): the stored row with the
\* fields of `data` overwritten; the write has no condition on the row's status
UpdatePosition(row, data) ==
    [row EXCEPT !.status = data.status, !.exitPrice = data.exitPrice,
                !.exitAmount = data.exitAmount, !.pnl = data.pnl,
                !.pnlPercent = data.pnlPercent, !.closedAt = data.closedAt,
                !.closeReason = data.closeReason, !.exitTradeId = data.exitTradeId]

\* getOpenPositions with the rows in the order of their creation: oldest first
getOpenPositionsAscending(userId, pair) ==
    SelectSeq(Ids(positions),
        LAMBDA i : /\ positions[i].userId = userId
                   /\ positions[i].status = "OPEN"
                   /\ (pair = None \/ positions[i].pair = Val(pair)))

\* getOpenPositions: ids of the user's OPEN positions (of the pair, when one
\* is given), orderBy createdAt desc: newest first
getOpenPositions(userId, pair) ==
    Reverse(SelectSeq(Ids(positions),
        LAMBDA i : /\ positions[i].userId = userId
                   /\ positions[i].status = "OPEN"
                   /\ (pair = None \/ positions[i].pair = Val(pair))))

\* getBotPositionAmount: the sum of the amounts of getOpenPositions
getBotPositionAmount(userId, pair) ==
    LET ids == getOpenPositions(userId, Some(pair))
    IN  SumSeq([i \in 1..Len(ids) |-> positions[ids[i]].amount])

\* findPositionToClose: the last of getOpenPositions, null when there is none
findPositionToClose(userId, pair) ==
    LET ids == getOpenPositions(userId, Some(pair))
    IN  IF Len(ids) = 0 THEN None ELSE Some(ids[Len(ids)])

\* checkExitConditions with the take-profit test placed before the stop-loss test
checkExitConditionsTakeProfitFirst(position, currentPrice) ==
    IF Truthy(position.takeProfit) /\ currentPrice >= Val(position.takeProfit)
    THEN "TAKE_PROFIT"
    ELSE IF Truthy(position.stopLoss) /\ currentPrice <= Val(position.stopLoss)
    THEN "STOP_LOSS"
    ELSE "NONE"

\* checkExitConditions: "STOP_LOSS", "TAKE_PROFIT", or "NONE" for
\* { shouldClose: false }
checkExitConditions(position, currentPrice) ==
    LET stopLoss   == IF Truthy(position.stopLoss) THEN position.stopLoss ELSE None
        takeProfit == IF Truthy(position.takeProfit) THEN position.takeProfit ELSE None
    IN  IF Truthy(stopLoss) /\ currentPrice <= Val(stopLoss) THEN "STOP_LOSS"
        ELSE IF Truthy(takeProfit) /\ currentPrice >= Val(takeProfit) THEN "TAKE_PROFIT"
        ELSE "NONE"

----------------------------------------------------------------------------
(* Initial values shared by the specifications *)

MonitorRuns == {"timer", "manual"}
SyncRuns == {"timer", "manual"}
Workers == {"w1", "w2"}
Requests == {"q1", "q2"}

IdleRun == [pc |-> "idle"]

\* scheduler.ts lines 16-19: the orchestrator before startScheduler.  timers
\* is the set of intervals armed in the event loop; call is the last call of
\* startScheduler or stopScheduler, with a bit that flips at every call and
\* the value of isRunning the call found.
StoppedOrch ==
    [isRunning |-> FALSE, positionMonitorInterval |-> None,
     orderSyncInterval |-> None, analysisInterval |-> None,
     timers |-> {}, call |-> [op |-> "none", n |-> 0, wasRunning |-> FALSE]]

DefaultSettings ==
    [botActive |-> TRUE, tradingMode |-> "MANUAL", maxOpenPositions |-> 1,
     minConfidenceToTrade |-> 80, analysisIntervalMins |-> 5, allowedPairs |-> <<>>,
     maxPositionPercent |-> 10]

NoCall == [op |-> "none"]

\* scheduler.ts line 429: the analysis interval, 5 * 60 * 1000 ms, in minutes
TickMins == 5

InitIdle ==
    /\ trades = <<>>
    /\ signals = <<>>
    /\ exchange = <<>>
    /\ tickers = [pr \in Pairs |-> None]
    /\ lastAnalysisTime = [u \in Users |-> 0]
    /\ monitor = [m \in MonitorRuns |-> IdleRun]
    /\ sync = [r \in SyncRuns |-> IdleRun]
    /\ sched = IdleRun
    /\ worker = [w \in Workers |-> IdleRun]
    /\ lastCall = NoCall
    /\ orch = StoppedOrch
    /\ cancel = IdleRun
    /\ omw = IdleRun
    /\ approve = [q \in Requests |-> IdleRun]

----------------------------------------------------------------------------
(* The position service called on its own: closePosition and                *)
(* checkExitConditions applied to a position that openPosition created.     *)

ClosePositionParams ==
    {[positionId |-> id, exitPrice |-> x, exitAmount |-> xa, reason |-> r,
      exitTradeId |-> None] :
        id \in 1..2, x \in Prices, xa \in Opt({0} \cup Amounts), r \in CloseReasons}

\* closePosition(params), with no other handler running between its read and
\* its write
CallClosePosition(params) ==
    LET found == findUniquePosition(params.positionId)
    IN  /\ IF found = None
           THEN /\ lastCall' = [op |-> "closePosition", params |-> params,
                                before |-> "none", result |-> "NotFound"]
                /\ UNCHANGED <<positions, closeWrites>>
           ELSE /\ closeWrites[params.positionId] < MaxCloses
                /\ positions' = [positions EXCEPT ![params.positionId] =
                        UpdatePosition(@, CloseData(Val(found), params, now))]
                /\ closeWrites' = [closeWrites EXCEPT ![params.positionId] = @ + 1]
                /\ lastCall' = [op |-> "closePosition", params |-> params,
                                before |-> Val(found).status, result |-> "ok"]
        /\ UNCHANGED <<trades, signals, userVars, envVars, runVars, procVars>>

\* checkExitConditions(positions[id], currentPrice)
CallCheckExitConditions(id, currentPrice) ==
    /\ id \in 1..Len(positions)
    /\ lastCall' = [op |-> "checkExitConditions",
                    params |-> [positionId |-> id, currentPrice |-> currentPrice],
                    before |-> positions[id].status,
                    result |-> checkExitConditions(positions[id], currentPrice)]
    /\ UNCHANGED <<storeVars, userVars, envVars, runVars, closeWrites, procVars>>

InitPosition ==
    /\ \E params \in OpenPositionParams :
            /\ params.userId = "u1" /\ params.pair = "btc_idr"
            /\ positions = <<openPosition(params)>>
    /\ closeWrites = <<0>>
    /\ now = 1
    /\ apiKeys = [u \in Users |-> TRUE]
    /\ settings = [u \in Users |-> DefaultSettings]
    /\ InitIdle

NextPosition ==
    \/ \E params \in ClosePositionParams : CallClosePosition(params)
    \/ \E id \in 1..2, currentPrice \in {0} \cup Prices :
            CallCheckExitConditions(id, currentPrice)

SpecPosition == InitPosition /\ [][NextPosition]_vars

----------------------------------------------------------------------------
(* services/scheduler.ts: checkPositionsForSLTP, the position monitor.      *)
(* Two invocations can be in flight at once: the setInterval tick of        *)
(* startScheduler and POST /jobs/scheduler/trigger { task: 'positions' }    *)
(* (or a tick that fires while the previous one still awaits the exchange). *)

\* Date.now() moves on by the period of the analysis interval
ClockTick ==
    /\ now + TickMins <= MaxTime
    /\ now' = now + TickMins
    /\ UNCHANGED <<storeVars, userVars, exchange, tickers, runVars, histVars, procVars>>

\* The market moves: the last price of a pair in the next getSummaries
TickerMove(pair, ticker) ==
    /\ tickers[pair] # ticker
    /\ tickers' = [tickers EXCEPT ![pair] = ticker]
    /\ UNCHANGED <<storeVars, userVars, exchange, now, runVars, histVars, procVars>>

\* lines 64-70: getSummaries, then findMany({ where: { status: 'OPEN' },
\* include: { user } }): the run keeps the snapshot of both
MonitorSnapshot ==
    [pc            |-> "loop",
     summaries     |-> tickers,
     openPositions |-> SelectSeq(Ids(positions),
                          LAMBDA i : positions[i].status = "OPEN"),
     keys          |-> apiKeys,
     i             |-> 1]

\* An invocation from outside the orchestrator begins
MonitorStart(m) ==
    /\ monitor[m].pc = "idle"
    /\ monitor' = [monitor EXCEPT ![m] = MonitorSnapshot]
    /\ UNCHANGED <<storeVars, userVars, envVars, sync, sched, worker, lastAnalysisTime, histVars, procVars>>

\* line 74: the next position of the snapshot, or the end of the cycle
MonitorNext(run) ==
    IF run.i < Len(run.openPositions)
    THEN [pc |-> "loop", summaries |-> run.summaries,
          openPositions |-> run.openPositions, keys |-> run.keys, i |-> run.i + 1]
    ELSE IdleRun

\* The outer catch of lines 142-144 in place of the inner one: the cycle ends
MonitorAbort(run) == IdleRun

\* The error leaves checkPositionsForSLTP: the promise of the invocation
\* is rejected
MonitorReject(run) == [pc |-> "rejected"]

\* The error of api.trade is passed over and the close of line 124 follows
MonitorProceed(run) == [run EXCEPT !.pc = "close"]

\* The position whose SELL failed is taken up again in the same cycle
MonitorRetry(run) ==
    [pc |-> "loop", summaries |-> run.summaries,
     openPositions |-> run.openPositions, keys |-> run.keys, i |-> run.i]

\* lines 137-139: the catch inside the loop logs the error of one position
\* and the loop goes on
MonitorCatch(run) == MonitorNext(run)

\* Every owner is taken to have credentials (the test of line 97 left out)
KeysAssumed(run, userId) == TRUE

\* line 97: both keys of the owner, as the findMany of line 67 included them
HasKeys(run, userId) == run.keys[userId]

\* lines 74-101: one position of the snapshot up to the await of api.trade
MonitorEval(m) ==
    /\ monitor[m].pc = "loop"
    /\ LET run == monitor[m]
       IN  IF run.openPositions = <<>>
           THEN monitor' = [monitor EXCEPT ![m] = IdleRun]
           ELSE LET id       == run.openPositions[run.i]
                    position == positions[id]
                    ticker   == run.summaries[position.pair]
                IN  IF ticker = None
                    THEN monitor' = [monitor EXCEPT ![m] = MonitorNext(run)]
                    ELSE LET currentPrice == Val(ticker)
                             exitCheck == checkExitConditions(position, currentPrice)
                         IN  IF exitCheck = "NONE" \/ ~HasKeys(run, position.userId)
                             THEN monitor' = [monitor EXCEPT ![m] = MonitorNext(run)]
                             ELSE monitor' = [monitor EXCEPT ![m] =
                                     [run EXCEPT !.pc = "trade"] @@
                                     [currentPrice |-> currentPrice, reason |-> exitCheck]]
    /\ UNCHANGED <<storeVars, userVars, envVars, sync, sched, worker, lastAnalysisTime, histVars, procVars>>

\* What is on record of a SELL sent to api.trade: the amount, the bot's
\* holdings of the pair when it was sent, and the amount the exchange has
\* accepted so far
SellCall(caller, userId, pair, amount, accepted) ==
    [op |-> "trade", type |-> "sell", caller |-> caller, userId |-> userId, pair |-> pair,
     amount |-> amount, accepted |-> accepted,
     holdings |-> getBotPositionAmount(userId, pair),
     sold |-> (IF lastCall.op = "trade" THEN lastCall.sold ELSE 0)
                 + (IF accepted THEN amount ELSE 0)]

\* lines 110-121 and 137-139: api.trade places the SELL order or throws; a
\* throw is caught per position and the loop goes on
MonitorTradeCall(m, placed) ==
    /\ monitor[m].pc = "trade"
    /\ monitor' = [monitor EXCEPT ![m] =
            IF placed THEN [@ EXCEPT !.pc = "close"] @@ [tradeResult |-> "placed"]
            ELSE MonitorCatch(@)]
    /\ UNCHANGED <<storeVars, userVars, envVars, sync, sched, worker, lastAnalysisTime,
                   closeWrites, procVars>>

MonitorTrade(m, placed) ==
    /\ MonitorTradeCall(m, placed)
    /\ UNCHANGED lastCall

\* The same step, with the order on record: line 110, the amount is
\* Math.floor of the amount of the position as the snapshot holds it
MonitorTradeAt(m, placed) ==
    /\ MonitorTradeCall(m, placed)
    /\ LET position == positions[monitor[m].openPositions[monitor[m].i]]
       IN  lastCall' = SellCall("checkPositionsForSLTP", position.userId, position.pair,
                                position.amount, placed)
    /\ lastCall'.sold <= MaxSold

\* line 124, closePosition lines 55-61: the row is read
MonitorCloseRead(m) ==
    /\ monitor[m].pc = "close"
    /\ LET run == monitor[m]
           found == findUniquePosition(run.openPositions[run.i])
       IN  monitor' = [monitor EXCEPT ![m] =
               IF found = None THEN MonitorCatch(run)
               ELSE [run EXCEPT !.pc = "update"] @@ [position |-> Val(found)]]
    /\ UNCHANGED <<storeVars, userVars, envVars, sync, sched, worker, lastAnalysisTime, histVars, procVars>>

\* closePosition lines 63-88: the update computed from the row read earlier
\* is written; the notification of lines 131-136 comes next
MonitorCloseUpdate(m) ==
    /\ monitor[m].pc = "update"
    /\ LET run == monitor[m]
           id == run.openPositions[run.i]
           params == [positionId |-> id, exitPrice |-> run.currentPrice,
                      exitAmount |-> None, reason |-> run.reason, exitTradeId |-> None]
       IN  /\ closeWrites[id] < MaxCloses
           /\ positions' = [positions EXCEPT ![id] =
                    UpdatePosition(@, CloseData(run.position, params, now))]
           /\ closeWrites' = [closeWrites EXCEPT ![id] = @ + 1]
           /\ monitor' = [monitor EXCEPT ![m] =
                    [pc |-> "notify", summaries |-> run.summaries,
                     openPositions |-> run.openPositions, keys |-> run.keys, i |-> run.i]]
    /\ UNCHANGED <<trades, signals, userVars, envVars, sync, sched, worker, lastAnalysisTime,
                   lastCall, procVars>>

\* closePosition throws (the store fails at its read or at its write): the
\* catch inside the loop takes it
MonitorCloseFail(m) ==
    /\ monitor[m].pc \in {"close", "update"}
    /\ LET run == monitor[m]
       IN  monitor' = [monitor EXCEPT ![m] = MonitorCatch(
                [pc |-> "loop", summaries |-> run.summaries,
                 openPositions |-> run.openPositions, keys |-> run.keys, i |-> run.i])]
    /\ UNCHANGED <<storeVars, userVars, envVars, sync, sched, worker, lastAnalysisTime, histVars, procVars>>

\* sendAndSaveNotification, lines 24-53: the row is created and the socket
\* send returns, the row is created and the socket send throws, or
\* notification.create throws
NotifyOutcomes == {"sent", "unsent", "unsaved"}

\* The error leaves sendAndSaveNotification and the cycle with it
NotifyAborts(run, next, outcome) == IF outcome = "sent" THEN next ELSE IdleRun

\* lines 50-52: the catch of sendAndSaveNotification logs the error and the
\* caller goes on as after a notification that was sent
NotifyReturns(run, next, outcome) == next

\* lines 131-136: the notification of the closed position, whatever comes of it
MonitorNotifyCall(m, outcome) ==
    /\ monitor[m].pc = "notify"
    /\ monitor' = [monitor EXCEPT ![m] = NotifyReturns(@, MonitorNext(@), outcome)]
    /\ UNCHANGED <<storeVars, userVars, envVars, sync, sched, worker, lastAnalysisTime,
                   closeWrites, procVars>>

MonitorNotify(m) ==
    /\ \E outcome \in NotifyOutcomes : MonitorNotifyCall(m, outcome)
    /\ UNCHANGED lastCall

\* The same step, with the call and what came of it on record
MonitorNotifyAt(m, outcome) ==
    /\ MonitorNotifyCall(m, outcome)
    /\ lastCall' = [op |-> "sendAndSaveNotification", outcome |-> outcome,
                    caller |-> "checkPositionsForSLTP",
                    about |-> monitor[m].openPositions[monitor[m].i]]

\* Positions the order sync has opened, as the monitor finds them
MonitorSeeds ==
    {openPosition(params) : params \in
        {q \in OpenPositionParams :
            /\ q.pair = "btc_idr" /\ q.amount = 2
            /\ q.stopLoss \in {None, Some(90)}
            /\ q.takeProfit \in {None, Some(110)}}}

InitMonitor ==
    /\ \E n \in 1..MaxPositions : positions \in [1..n -> MonitorSeeds]
    /\ closeWrites = [i \in 1..Len(positions) |-> 0]
    /\ now = 1
    /\ apiKeys = [u \in Users |-> u = "u1"]
    /\ settings = [u \in Users |-> DefaultSettings]
    /\ InitIdle

NextMonitor ==
    \/ \E pair \in {"btc_idr"}, ticker \in Opt(Prices) : TickerMove(pair, ticker)
    \/ \E m \in MonitorRuns :
          \/ MonitorStart(m)
          \/ MonitorEval(m)
          \/ \E placed \in BOOLEAN : MonitorTrade(m, placed)
          \/ MonitorCloseRead(m)
          \/ MonitorCloseUpdate(m)
          \/ MonitorCloseFail(m)
          \/ MonitorNotify(m)

SpecMonitor == InitMonitor /\ [][NextMonitor]_vars

----------------------------------------------------------------------------
(* routes/trading.ts: POST /trades, manual order placement, and the        *)
(* exchange's side of an order.                                            *)

\* type.toUpperCase() on the two values placeOrderSchema admits
ToUpperCase(type) == IF type = "buy" THEN "BUY" ELSE "SELL"

\* Request bodies placeOrderSchema admits: amount and idr are both optional
PlaceOrderBodies ==
    {[pair |-> pr, type |-> ty, price |-> 100, amount |-> a, idr |-> q,
      stopLoss |-> sl, takeProfit |-> tp] :
        pr \in Pairs, ty \in {"buy", "sell"}, a \in Opt({2}), q \in Opt({200}),
        sl \in {Some(90)}, tp \in {Some(110)}}

\* The row prisma.trade.create writes before the order is sent
NewTrade(userId, body) ==
    [userId |-> userId, orderId |-> None, pair |-> body.pair,
     type |-> ToUpperCase(body.type), price |-> body.price,
     amount |-> IF Truthy(body.amount) THEN Val(body.amount) ELSE 0,
     cost |-> IF Truthy(body.idr) THEN Val(body.idr)
              ELSE IF Truthy(body.amount) THEN Val(body.amount) * body.price ELSE 0,
     stopLoss |-> body.stopLoss, takeProfit |-> body.takeProfit,
     status |-> "PENDING", signalId |-> None]

\* POST /trades up to the await of api.trade
PlaceOrderCreate(userId, body) ==
    /\ apiKeys[userId]
    /\ Len(trades) < MaxTrades
    /\ trades' = Append(trades, NewTrade(userId, body))
    /\ UNCHANGED <<positions, signals, userVars, envVars, runVars, histVars, procVars>>

\* POST /trades after api.trade returned (accepted) or threw
PlaceOrderResult(tradeId, accepted) ==
    /\ tradeId \in 1..Len(trades)
    /\ trades[tradeId].status = "PENDING" /\ trades[tradeId].orderId = None
    /\ IF accepted
       THEN /\ exchange' = Append(exchange, "open")
            /\ trades' = [trades EXCEPT ![tradeId].orderId = Some(Len(exchange) + 1),
                                        ![tradeId].status = "PLACED"]
       ELSE /\ trades' = [trades EXCEPT ![tradeId].status = "FAILED"]
            /\ UNCHANGED exchange
    /\ UNCHANGED <<positions, signals, userVars, tickers, now, runVars, histVars, procVars>>

\* The exchange matches or cancels an order that is still on its book
ExchangeMove(orderId, status) ==
    /\ orderId \in 1..Len(exchange)
    /\ exchange[orderId] \in {"open", "partial"}
    /\ status # exchange[orderId]
    /\ exchange' = [exchange EXCEPT ![orderId] = status]
    /\ UNCHANGED <<storeVars, userVars, tickers, now, runVars, histVars, procVars>>

----------------------------------------------------------------------------
(* services/scheduler.ts: syncPendingOrders, the order sync.  As with the   *)
(* position monitor two invocations can be in flight at once.               *)

\* What getOrder can do: throw, or answer with an order that has a status
\* field or has none (the IndodaxOrder type declares none)
GetOrderAnswers == {"throw", "status", "nostatus"}

\* The order object of getOrder's answer: remain_idr is set for a BUY order,
\* and is '0' once the order is filled
GetOrder(orderId, type, answer) ==
    [status |-> IF answer = "status" THEN Some(exchange[orderId]) ELSE None,
     remain_idr |-> IF type = "BUY"
                    THEN Some(IF exchange[orderId] = "filled" THEN "0" ELSE "100")
                    ELSE None]

\* order.status || (order.remain_idr === '0' ? 'filled' : 'open')
OrderStatus(order) ==
    IF order.status # None THEN Val(order.status)
    ELSE IF order.remain_idr = Some("0") THEN "filled" ELSE "open"

\* The switch with FILLED as its default
NewStatusDefaultFilled(orderStatus) ==
    CASE orderStatus = "partial" -> "PARTIAL"
      [] orderStatus = "cancelled" -> "CANCELLED"
      [] OTHER -> "FILLED"

\* The switch on the exchange's order status
NewStatus(orderStatus) ==
    CASE orderStatus = "filled" -> "FILLED"
      [] orderStatus = "partial" -> "PARTIAL"
      [] orderStatus = "cancelled" -> "CANCELLED"
      [] OTHER -> "PLACED"

\* findMany of the trades to sync, each with its user's keys; the run keeps
\* the rows as they were read
SyncSnapshot ==
    LET ids == SelectSeq(Ids(trades), LAMBDA i :
                    /\ trades[i].status \in {"PLACED", "PARTIAL"}
                    /\ trades[i].orderId # None)
    IN  IF ids = <<>> THEN IdleRun
        ELSE [pc |-> "query",
              pendingTrades |-> [k \in 1..Len(ids) |->
                    [id |-> ids[k], trade |-> trades[ids[k]],
                     keys |-> apiKeys[trades[ids[k]].userId]]],
              i |-> 1]

\* An invocation that finds trades to look at begins
SyncStart(r) ==
    /\ sync[r].pc = "idle"
    /\ SyncSnapshot # IdleRun
    /\ sync' = [sync EXCEPT ![r] = SyncSnapshot]
    /\ UNCHANGED <<storeVars, userVars, envVars, monitor, sched, worker, lastAnalysisTime,
                   histVars, procVars>>

\* Move on to the next trade of the list, or return after the last
SyncNext(run) ==
    IF run.i < Len(run.pendingTrades)
    THEN [pc |-> "query", pendingTrades |-> run.pendingTrades, i |-> run.i + 1]
    ELSE IdleRun

\* The outer catch of lines 267-269 in place of the inner one: the cycle ends
SyncAbort(run) == IdleRun

\* lines 262-264: the catch inside the loop logs the error of one trade and
\* the loop goes on
SyncCatch(run) == SyncNext(run)

\* One trade of the loop up to the answer of api.getOrder: the run keeps the
\* order it was sent; a trade whose user has no keys is passed over and a
\* throw is caught per trade
SyncQuery(r, answer) ==
    /\ sync[r].pc = "query"
    /\ LET run == sync[r]
           item == run.pendingTrades[run.i]
           trade == item.trade
       IN  sync' = [sync EXCEPT ![r] =
                IF ~item.keys THEN SyncNext(run)
                ELSE IF answer = "throw" THEN SyncCatch(run)
                ELSE [pc |-> "update", pendingTrades |-> run.pendingTrades, i |-> run.i,
                      order |-> GetOrder(Val(trade.orderId), trade.type, answer)]]
    /\ UNCHANGED <<storeVars, userVars, envVars, monitor, sched, worker, lastAnalysisTime,
                   histVars, procVars>>

\* The status mapping of the answer, and trade.update when the status
\* differs from the one the run read at its start
SyncUpdate(r) ==
    /\ sync[r].pc = "update"
    /\ LET run == sync[r]
           item == run.pendingTrades[run.i]
           trade == item.trade
           newStatus == NewStatus(OrderStatus(run.order))
       IN  IF newStatus = trade.status
           THEN /\ sync' = [sync EXCEPT ![r] = SyncNext(run)]
                /\ UNCHANGED trades
           ELSE /\ trades' = [trades EXCEPT ![item.id].status = newStatus]
                /\ sync' = [sync EXCEPT ![r] =
                        IF newStatus = "FILLED" /\ trade.type = "BUY"
                        THEN [pc |-> "find", pendingTrades |-> run.pendingTrades,
                              i |-> run.i]
                        ELSE SyncNext(run)]
    /\ UNCHANGED <<positions, signals, userVars, envVars, monitor, sched, worker,
                   lastAnalysisTime, histVars, procVars>>

\* position.findFirst by the user and the trade's exchange order id
SyncFind(r) ==
    /\ sync[r].pc = "find"
    /\ LET run == sync[r]
           trade == run.pendingTrades[run.i].trade
           existingPosition ==
                \E id \in 1..Len(positions) :
                    /\ positions[id].userId = trade.userId
                    /\ positions[id].entryTradeId = trade.orderId
       IN  sync' = [sync EXCEPT ![r] =
                IF existingPosition THEN SyncNext(run)
                ELSE [pc |-> "open", pendingTrades |-> run.pendingTrades, i |-> run.i]]
    /\ UNCHANGED <<storeVars, userVars, envVars, monitor, sched, worker, lastAnalysisTime,
                   histVars, procVars>>

\* lines 262-264: trade.update, position.findFirst, openPosition or
\* signal.update throws; the catch inside the loop logs it and the loop goes on
SyncFail(r) ==
    /\ sync[r].pc \in {"update", "find", "open"}
    /\ sync' = [sync EXCEPT ![r] = SyncCatch(@)]
    /\ UNCHANGED <<storeVars, userVars, envVars, monitor, sched, worker, lastAnalysisTime,
                   histVars, procVars>>

\* openPosition from the trade as read, then the trade's signal is EXECUTED;
\* the notification of lines 254-259 comes next
SyncOpen(r) ==
    /\ sync[r].pc = "open"
    /\ Len(positions) < MaxPositions
    /\ LET run == sync[r]
           trade == run.pendingTrades[run.i].trade
       IN  /\ positions' = Append(positions, openPosition(
                    [userId |-> trade.userId, pair |-> trade.pair,
                     amount |-> trade.amount, entryPrice |-> trade.price,
                     cost |-> trade.cost, signalId |-> trade.signalId,
                     stopLoss |-> trade.stopLoss, takeProfit |-> trade.takeProfit,
                     entryTradeId |-> trade.orderId]))
           /\ closeWrites' = Append(closeWrites, 0)
           /\ signals' = IF trade.signalId # None
                         THEN [signals EXCEPT ![Val(trade.signalId)].status = "EXECUTED"]
                         ELSE signals
           /\ sync' = [sync EXCEPT ![r] =
                    [pc |-> "notify", pendingTrades |-> run.pendingTrades, i |-> run.i]]
    /\ UNCHANGED <<trades, userVars, envVars, monitor, sched, worker, lastAnalysisTime,
                   lastCall, procVars>>

\* lines 254-259: the notification of the opened position, whatever comes of it
SyncNotifyCall(r, outcome) ==
    /\ sync[r].pc = "notify"
    /\ sync' = [sync EXCEPT ![r] = NotifyReturns(@, SyncNext(@), outcome)]
    /\ UNCHANGED <<storeVars, userVars, envVars, monitor, sched, worker, lastAnalysisTime,
                   closeWrites, procVars>>

SyncNotify(r) ==
    /\ \E outcome \in NotifyOutcomes : SyncNotifyCall(r, outcome)
    /\ UNCHANGED lastCall

\* The same step, with the call and what came of it on record
SyncNotifyAt(r, outcome) ==
    /\ SyncNotifyCall(r, outcome)
    /\ lastCall' = [op |-> "sendAndSaveNotification", outcome |-> outcome,
                    caller |-> "syncPendingOrders",
                    about |-> sync[r].pendingTrades[sync[r].i].id]

----------------------------------------------------------------------------
(* services/ai.ts: what generateSignal hands to its callers, and the        *)
(* Signal rows the callers write.  A confidence and a threshold are in      *)
(* percent (the source keeps them in [0, 1]).                               *)

Actions == {"BUY", "SELL", "HOLD"}
Confidences == {60, 80}
Thresholds == {60, 80}

\* An AIAnalysisResult
GenResults ==
    {[action |-> a, confidence |-> c, entryPrice |-> 100, targetPrice |-> 110,
      stopLoss |-> 90, amountPercent |-> 10] : a \in Actions, c \in Confidences}

\* generateSignal throws, returns null, or returns a result
GenOutcomes ==
    {[kind |-> "throw"], [kind |-> "null"]}
        \cup {[kind |-> "result", result |-> g] : g \in GenResults}

\* The comparison with <= in place of <
BelowOrAtThreshold(confidence, minConfidenceToTrade) == confidence <= minConfidenceToTrade

\* signal.confidence < settings.minConfidenceToTrade
BelowThreshold(confidence, minConfidenceToTrade) == confidence < minConfidenceToTrade

\* The row prisma.signal.create writes.  createdAs, threshold (the
\* minimum confidence the handler compared with, if it compared) and
\* minAtCreate (the user's minimum confidence in the store when the row is
\* written) are history: the source does not store them.
\* validUntil: new Date(Date.now() + 60 * 60 * 1000), in minutes
ValidMins == 60

\* The row signal.create writes at the clock reading `at`
NewSignalAt(userId, pair, g, status, threshold, at) ==
    [userId |-> userId, pair |-> pair, action |-> g.action,
     confidence |-> g.confidence, entryPrice |-> g.entryPrice,
     targetPrice |-> g.targetPrice, stopLoss |-> g.stopLoss,
     amountPercent |-> g.amountPercent, status |-> status,
     createdAs |-> status, threshold |-> threshold,
     minAtCreate |-> settings[userId].minConfidenceToTrade,
     validUntil |-> at + ValidMins]

NewSignal(userId, pair, g, status, threshold) ==
    NewSignalAt(userId, pair, g, status, threshold, now)

\* position.findFirst({userId, pair, status: 'OPEN'}) found a row
ExistingPosition(userId, pair) ==
    \E id \in 1..Len(positions) :
        /\ positions[id].userId = userId
        /\ positions[id].pair = pair
        /\ positions[id].status = "OPEN"

\* position.count({userId, status: 'OPEN'})
OpenPositionsCount(userId) ==
    Cardinality({id \in 1..Len(positions) :
        positions[id].userId = userId /\ positions[id].status = "OPEN"})

----------------------------------------------------------------------------
(* routes/settings.ts: the user changes the minimum confidence.             *)

UpdateSettings(userId, patch) ==
    /\ settings' = [settings EXCEPT ![userId] =
            [@ EXCEPT !.minConfidenceToTrade = patch.minConfidenceToTrade]]
    /\ settings'[userId] # settings[userId]
    /\ UNCHANGED <<storeVars, apiKeys, envVars, runVars, histVars, procVars>>

SettingsPatches == {[minConfidenceToTrade |-> t] : t \in Thresholds}

----------------------------------------------------------------------------
(* jobs/index.ts: analysisWorker, the processor of the 'ai-analysis' queue  *)
(* (concurrency 2: two jobs can be in flight at once).                      *)

estimatedBalance == 10000000

\* The job up to the await of generateSignal: the settings are read once, and
\* the job returns early for an inactive bot, an OPEN position of the pair, or
\* a user at the limit
WorkerStart(w, userId, pair) ==
    /\ worker[w].pc = "idle"
    /\ settings[userId].botActive
    /\ ~ExistingPosition(userId, pair)
    /\ OpenPositionsCount(userId) < settings[userId].maxOpenPositions
    /\ worker' = [worker EXCEPT ![w] =
            [pc |-> "generate", userId |-> userId, pair |-> pair,
             settings |-> settings[userId]]]
    /\ UNCHANGED <<storeVars, userVars, envVars, monitor, sync, sched, lastAnalysisTime,
                   histVars, procVars>>

\* AUTONOMOUS SELL: the saved signal is SKIPPED when the bot holds nothing of
\* the pair, else the oldest OPEN position is closed at the signal's entry price
WorkerSell(job, g, saved) ==
    LET botAmount == getBotPositionAmount(job.userId, job.pair)
        positionToClose == findPositionToClose(job.userId, job.pair)
        id == Val(positionToClose)
        params == [positionId |-> id, exitPrice |-> g.entryPrice, exitAmount |-> None,
                   reason |-> "SIGNAL", exitTradeId |-> None]
    IN  IF botAmount = 0
        THEN /\ signals' = Append(signals, [saved EXCEPT !.status = "SKIPPED"])
             /\ UNCHANGED <<positions, closeWrites>>
        ELSE /\ closeWrites[id] < MaxCloses
             /\ positions' = [positions EXCEPT ![id] =
                    UpdatePosition(@, CloseData(positions[id], params, now))]
             /\ closeWrites' = [closeWrites EXCEPT ![id] = @ + 1]
             /\ signals' = Append(signals, [saved EXCEPT !.status = "EXECUTED"])

\* AUTONOMOUS BUY: a position is opened from the signal and an assumed balance
WorkerBuy(job, g, saved) ==
    LET cost == (estimatedBalance * g.amountPercent) \div 100
        amount == cost \div g.entryPrice
    IN  /\ Len(positions) < MaxPositions
        /\ positions' = Append(positions, openPosition(
                [userId |-> job.userId, pair |-> job.pair, amount |-> amount,
                 entryPrice |-> g.entryPrice, cost |-> cost,
                 signalId |-> Some(Len(signals) + 1), stopLoss |-> Some(g.stopLoss),
                 takeProfit |-> Some(g.targetPrice), entryTradeId |-> None]))
        /\ closeWrites' = Append(closeWrites, 0)
        /\ signals' = Append(signals, [saved EXCEPT !.status = "EXECUTED"])

\* The rest of the job: generateSignal, the saved signal, and in AUTONOMOUS
\* mode its execution
WorkerGenerate(w, outcome) ==
    /\ worker[w].pc = "generate"
    /\ LET job == worker[w]
           g == outcome.result
           min == job.settings.minConfidenceToTrade
           signalStatus == IF job.settings.tradingMode = "AUTONOMOUS"
                           THEN "APPROVED" ELSE "PENDING"
           saved == NewSignal(job.userId, job.pair, g, signalStatus, Some(min))
       IN  /\ worker' = [worker EXCEPT ![w] = IdleRun]
           /\ IF outcome.kind # "result" \/ g.action = "HOLD"
              THEN UNCHANGED <<positions, signals, closeWrites>>
              ELSE /\ Len(signals) < MaxSignals
                   /\ IF BelowThreshold(g.confidence, min)
                      THEN /\ signals' = Append(signals,
                                NewSignal(job.userId, job.pair, g, "SKIPPED", Some(min)))
                           /\ UNCHANGED <<positions, closeWrites>>
                      ELSE IF job.settings.tradingMode # "AUTONOMOUS"
                      THEN /\ signals' = Append(signals, saved)
                           /\ UNCHANGED <<positions, closeWrites>>
                      ELSE IF g.action = "SELL"
                      THEN WorkerSell(job, g, saved)
                      ELSE WorkerBuy(job, g, saved)
    /\ UNCHANGED <<trades, userVars, envVars, monitor, sync, sched, lastAnalysisTime,
                   lastCall, procVars>>

----------------------------------------------------------------------------
(* The order path: manual orders are placed and filled, two order syncs      *)
(* run, and the analysis worker trades for a user in AUTONOMOUS mode.       *)

\* u1 trades by hand, u2 lets the bot trade
SyncSettings ==
    [u \in Users |-> [DefaultSettings EXCEPT
        !.tradingMode = IF u = "u2" THEN "AUTONOMOUS" ELSE "MANUAL"]]

\* Generator results that make the worker trade
SyncGenOutcomes ==
    {o \in GenOutcomes : o.kind = "result" => (o.result.action = "BUY"
                                               /\ o.result.confidence = 80)}

InitSync ==
    /\ positions = <<>>
    /\ closeWrites = <<>>
    /\ now = 1
    /\ apiKeys = [u \in Users |-> TRUE]
    /\ settings = SyncSettings
    /\ InitIdle

NextSync ==
    \/ \E userId \in Users, body \in PlaceOrderBodies : PlaceOrderCreate(userId, body)
    \/ \E tradeId \in 1..MaxTrades, accepted \in BOOLEAN :
            PlaceOrderResult(tradeId, accepted)
    \/ \E orderId \in 1..MaxTrades, status \in {"partial", "filled", "cancelled"} :
            ExchangeMove(orderId, status)
    \/ \E r \in SyncRuns :
            \/ SyncStart(r)
            \/ \E answer \in {"throw", "status"} : SyncQuery(r, answer)
            \/ SyncUpdate(r)
            \/ SyncFind(r)
            \/ SyncOpen(r)
            \/ SyncNotify(r)
    \/ \E w \in Workers :
            \/ \E pair \in Pairs : WorkerStart(w, "u2", pair)
            \/ \E outcome \in SyncGenOutcomes : WorkerGenerate(w, outcome)

SpecSync == InitSync /\ [][NextSync]_vars

----------------------------------------------------------------------------
(* services/scheduler.ts: runScheduledAnalysis, the scheduled analysis.     *)
(* A run keeps the settings rows it read at its start; `log` is the last    *)
(* line the run wrote to the console about a user.                          *)

UserSeq == <<"u1", "u2">>

\* findMany of the settings rows with botActive
SchedSnapshot ==
    LET ids == SelectSeq(UserSeq, LAMBDA u : settings[u].botActive)
    IN  IF ids = <<>> THEN IdleRun
        ELSE [pc |-> "rate",
              activeUsers |-> [k \in 1..Len(ids) |->
                    [userId |-> ids[k], settings |-> settings[ids[k]]]],
              i |-> 1, pair |-> None, now |-> now, log |-> "started"]

\* An invocation that finds active users begins
SchedStart ==
    /\ sched.pc = "idle"
    /\ SchedSnapshot # IdleRun
    /\ sched' = SchedSnapshot
    /\ UNCHANGED <<storeVars, userVars, envVars, monitor, sync, worker, lastAnalysisTime,
                   histVars, procVars>>

\* `continue`: the next user of the list, or the end of the run
SchedNext(run, log) ==
    IF run.i < Len(run.activeUsers)
    THEN [pc |-> "rate", activeUsers |-> run.activeUsers, i |-> run.i + 1,
          pair |-> None, now |-> run.now, log |-> log]
    ELSE IdleRun

\* The outer catch of lines 401-403 in place of the inner one: the run ends
SchedAbort(run) == IdleRun

\* lines 398-400: the catch inside the loop logs the error of one user and
\* the loop goes on
SchedCatch(run) == SchedNext(run, "error")

\* One more step of the same user
SchedGoto(run, pc, log) == [run EXCEPT !.pc = pc, !.log = log]

\* The rate limit of the user, then the random choice of a pair
SchedRate(pair) ==
    /\ sched.pc = "rate"
    /\ LET user == sched.activeUsers[sched.i]
           lastRun == lastAnalysisTime[user.userId]
           minInterval == IF user.settings.analysisIntervalMins # 0
                          THEN user.settings.analysisIntervalMins ELSE 30
           pairs == IF Len(user.settings.allowedPairs) > 0
                    THEN user.settings.allowedPairs ELSE <<"btc_idr", "eth_idr">>
       IN  IF now - lastRun < minInterval
           THEN sched' = SchedNext(sched, "rate limited")
           ELSE /\ \E k \in 1..Len(pairs) : pairs[k] = pair
                /\ sched' = [SchedGoto(sched, "count", "analyzing")
                                EXCEPT !.pair = Some(pair), !.now = now]
    /\ UNCHANGED <<storeVars, userVars, envVars, monitor, sync, worker, lastAnalysisTime,
                   histVars, procVars>>

\* The comparison with > in place of >=
AboveMaxPositions(openPositionsCount, maxOpenPositions) ==
    openPositionsCount > maxOpenPositions

\* openPositionsCount >= settings.maxOpenPositions
AtMaxPositions(openPositionsCount, maxOpenPositions) ==
    openPositionsCount >= maxOpenPositions

\* position.count of the user's OPEN positions against the limit
SchedCount ==
    /\ sched.pc = "count"
    /\ LET user == sched.activeUsers[sched.i]
       IN  sched' = IF AtMaxPositions(OpenPositionsCount(user.userId),
                                      user.settings.maxOpenPositions)
                    THEN SchedNext(sched, "max positions reached")
                    ELSE SchedGoto(sched, "find", "analyzing")
    /\ UNCHANGED <<storeVars, userVars, envVars, monitor, sync, worker, lastAnalysisTime,
                   histVars, procVars>>

\* position.findFirst of an OPEN position of the user for the pair
SchedFind ==
    /\ sched.pc = "find"
    /\ LET user == sched.activeUsers[sched.i]
       IN  sched' = IF ExistingPosition(user.userId, Val(sched.pair))
                    THEN SchedNext(sched, "position already open")
                    ELSE SchedGoto(sched, "generate", "analyzing")
    /\ UNCHANGED <<storeVars, userVars, envVars, monitor, sync, worker, lastAnalysisTime,
                   histVars, procVars>>

\* lines 398-400: position.count or position.findFirst throws; the catch
\* inside the loop logs it and the loop goes on with the next user
SchedFail ==
    /\ sched.pc \in {"count", "find"}
    /\ sched' = SchedCatch(sched)
    /\ UNCHANGED <<storeVars, userVars, envVars, monitor, sync, worker, lastAnalysisTime,
                   histVars, procVars>>

\* generateSignal and what follows it: a thrown error is caught per user, no
\* result, HOLD and a low confidence only set the user's last analysis time,
\* any other result is saved as PENDING
SchedGenerateCall(outcome) ==
    /\ sched.pc = "generate"
    /\ LET user == sched.activeUsers[sched.i]
           userId == user.userId
           pair == Val(sched.pair)
           g == outcome.result
           min == user.settings.minConfidenceToTrade
       IN  /\ IF outcome.kind = "throw"
              THEN /\ sched' = SchedCatch(sched)
                   /\ UNCHANGED <<signals, lastAnalysisTime>>
              ELSE /\ lastAnalysisTime' = [lastAnalysisTime EXCEPT ![userId] = sched.now]
                   /\ IF outcome.kind = "null" \/ g.action = "HOLD"
                      THEN /\ sched' = SchedNext(sched, "no action")
                           /\ UNCHANGED signals
                      ELSE IF BelowThreshold(g.confidence, min)
                      THEN /\ sched' = SchedNext(sched, "confidence too low")
                           /\ UNCHANGED signals
                      ELSE /\ Len(signals) < MaxSignals
                           /\ signals' = Append(signals,
                                NewSignal(userId, pair, g, "PENDING", Some(min)))
                           /\ sched' = SchedNext(sched, "signal created")
    /\ UNCHANGED <<positions, trades, userVars, envVars, monitor, sync, worker,
                   closeWrites, procVars>>

SchedGenerate(outcome) ==
    /\ SchedGenerateCall(outcome)
    /\ UNCHANGED lastCall

\* The same step, with the call kept as the last call of the history
SchedGenerateAt(outcome) ==
    /\ SchedGenerateCall(outcome)
    /\ lastCall' = [op |-> "generateSignal",
                    userId |-> sched.activeUsers[sched.i].userId, at |-> now,
                    settings |-> sched.activeUsers[sched.i].settings,
                    outcome |-> outcome]

----------------------------------------------------------------------------
(* routes/signals.ts: POST /signals/generate, and routes/jobs.ts:           *)
(* POST /jobs/analyze.                                                      *)

\* POST /signals/generate: the same two position checks, then generateSignal;
\* HOLD is not saved, a low confidence is saved as SKIPPED, the rest as PENDING
RouteGenerate(userId, pair, outcome) ==
    /\ Len(settings[userId].allowedPairs) > 0 =>
            \E k \in 1..Len(settings[userId].allowedPairs) :
                settings[userId].allowedPairs[k] = pair
    /\ ~ExistingPosition(userId, pair)
    /\ ~AtMaxPositions(OpenPositionsCount(userId), settings[userId].maxOpenPositions)
    /\ LET g == outcome.result
           min == settings[userId].minConfidenceToTrade
       IN  IF outcome.kind # "result" \/ g.action = "HOLD"
           THEN UNCHANGED signals
           ELSE /\ Len(signals) < MaxSignals
                /\ signals' = Append(signals,
                        NewSignal(userId, pair, g,
                                  IF BelowThreshold(g.confidence, min)
                                  THEN "SKIPPED" ELSE "PENDING",
                                  Some(min)))
    /\ UNCHANGED <<positions, trades, userVars, envVars, runVars, histVars, procVars>>

\* POST /jobs/analyze: generateSignal for the pair of the body, else the first
\* allowed pair, else btc_idr; whatever result comes back is saved as PENDING
RouteJobsAnalyze(userId, pair, outcome) ==
    /\ LET targetPair == IF pair # None THEN Val(pair)
                         ELSE IF Len(settings[userId].allowedPairs) > 0
                              THEN settings[userId].allowedPairs[1] ELSE "btc_idr"
       IN  /\ outcome.kind = "result"
           /\ Len(signals) < MaxSignals
           /\ signals' = Append(signals,
                    NewSignal(userId, targetPair, outcome.result, "PENDING", None))
    /\ UNCHANGED <<positions, trades, userVars, envVars, runVars, histVars, procVars>>

----------------------------------------------------------------------------
(* The signal paths: the scheduled analysis, the analysis worker and the    *)
(* two routes produce signals while users change their settings.           *)

\* u1 lets the bot trade: the queue jobs are u1's, and u1 is the user who
\* changes the minimum confidence; u2 approves by hand
SignalSettings ==
    [u \in Users |-> [DefaultSettings EXCEPT
        !.tradingMode = IF u = "u1" THEN "AUTONOMOUS" ELSE "MANUAL"]]

InitSignal ==
    /\ positions = <<>>
    /\ closeWrites = <<>>
    /\ now = 5
    /\ apiKeys = [u \in Users |-> TRUE]
    /\ settings = SignalSettings
    /\ InitIdle

NextSignal ==
    \/ \E patch \in SettingsPatches : UpdateSettings("u1", patch)
    \/ SchedStart
    \/ \E pair \in Pairs : SchedRate(pair)
    \/ SchedCount
    \/ SchedFind
    \/ \E outcome \in GenOutcomes : SchedGenerate(outcome)
    \/ \E w \in Workers :
            \/ \E pair \in Pairs : WorkerStart(w, "u1", pair)
            \/ \E outcome \in GenOutcomes : WorkerGenerate(w, outcome)
    \/ \E userId \in Users, pair \in Pairs, outcome \in GenOutcomes :
            RouteGenerate(userId, pair, outcome)
    \/ \E userId \in Users, pair \in Opt(Pairs), outcome \in GenOutcomes :
            RouteJobsAnalyze(userId, pair, outcome)

SpecSignal == InitSignal /\ [][NextSignal]_vars

----------------------------------------------------------------------------
(* services/scheduler.ts: startScheduler and stopScheduler, the             *)
(* orchestrator, with the intervals it arms and the cycles they invoke.     *)

CycleTypes == {"positions", "orders", "analysis"}

\* The handle setInterval returns: one that no armed timer has
NewHandle(timers) ==
    CHOOSE i \in 1..MaxTimers :
        /\ i \notin {t.id : t \in timers}
        /\ \A j \in 1..(i - 1) : j \in {t.id : t \in timers}

\* setInterval arms a timer for fn
SetInterval(timers, fn) == timers \cup {[id |-> NewHandle(timers), fn |-> fn]}

\* clearInterval without effect: the timer stays armed
ClearNothing(timers, handle) == timers

\* clearInterval: a null handle clears nothing
ClearInterval(timers, handle) ==
    IF handle = None THEN timers ELSE {t \in timers : t.id # Val(handle)}

\* The invocation slot a cycle called now runs in
FreeRun(runs) == IF runs["timer"].pc = "idle" THEN "timer" ELSE "manual"

\* startScheduler without its guard: it always arms
NeverRunning == FALSE

\* line 410: if (isRunning) return
AlreadyRunning == orch.isRunning

\* startScheduler: returns at once when running; else it calls the position
\* monitor and the order sync and arms the three intervals.  readM and readS
\* say whether the first reads of the two cycles succeed (a failed read ends
\* the cycle in its outer catch).
StartScheduler(readM, readS) ==
    LET noted == [orch EXCEPT !.call = [op |-> "start", n |-> 1 - @.n,
                                          wasRunning |-> orch.isRunning]]
    IN  IF AlreadyRunning
        THEN /\ orch' = noted
             /\ UNCHANGED <<storeVars, userVars, envVars, runVars, histVars, routeVars>>
        ELSE /\ Cardinality(orch.timers) + 3 <= MaxTimers
             /\ \E m \in MonitorRuns : monitor[m].pc = "idle"
             /\ \E r \in SyncRuns : sync[r].pc = "idle"
             /\ LET t1 == SetInterval(orch.timers, "positions")
                    t2 == SetInterval(t1, "orders")
                    t3 == SetInterval(t2, "analysis")
                IN  orch' = [noted EXCEPT
                        !.isRunning = TRUE,
                        !.positionMonitorInterval = Some(NewHandle(orch.timers)),
                        !.orderSyncInterval = Some(NewHandle(t1)),
                        !.analysisInterval = Some(NewHandle(t2)),
                        !.timers = t3]
             /\ monitor' = [monitor EXCEPT ![FreeRun(monitor)] =
                                IF readM THEN MonitorSnapshot ELSE IdleRun]
             /\ sync' = [sync EXCEPT ![FreeRun(sync)] =
                                IF readS THEN SyncSnapshot ELSE IdleRun]
             /\ UNCHANGED <<storeVars, userVars, envVars, sched, worker,
                            lastAnalysisTime, histVars, routeVars>>

\* stopScheduler: clears the three handles it holds and returns
StopScheduler ==
    /\ orch' = [orch EXCEPT
            !.isRunning = FALSE,
            !.positionMonitorInterval = None,
            !.orderSyncInterval = None,
            !.analysisInterval = None,
            !.timers = ClearInterval(ClearInterval(ClearInterval(@,
                            orch.positionMonitorInterval),
                            orch.orderSyncInterval),
                            orch.analysisInterval),
            !.call = [op |-> "stop", n |-> 1 - @.n, wasRunning |-> orch.isRunning]]
    /\ UNCHANGED <<storeVars, userVars, envVars, runVars, histVars, routeVars>>

\* An armed interval fires and calls its cycle function; read says whether
\* the cycle's first reads succeed
TimerFire(t, read) ==
    /\ t \in orch.timers
    /\ CASE t.fn = "positions" ->
                /\ \E m \in MonitorRuns : monitor[m].pc = "idle"
                /\ monitor' = [monitor EXCEPT ![FreeRun(monitor)] =
                                    IF read THEN MonitorSnapshot ELSE IdleRun]
                /\ UNCHANGED <<sync, sched>>
         [] t.fn = "orders" ->
                /\ \E r \in SyncRuns : sync[r].pc = "idle"
                /\ sync' = [sync EXCEPT ![FreeRun(sync)] =
                                    IF read THEN SyncSnapshot ELSE IdleRun]
                /\ UNCHANGED <<monitor, sched>>
         [] t.fn = "analysis" ->
                /\ sched.pc = "idle"
                /\ sched' = IF read THEN SchedSnapshot ELSE IdleRun
                /\ UNCHANGED <<monitor, sync>>
    /\ UNCHANGED <<storeVars, userVars, envVars, worker, lastAnalysisTime, histVars,
                   procVars>>

----------------------------------------------------------------------------
(* The orchestrator with its three cycles.  The cycles are only called by   *)
(* startScheduler and by the intervals; every awaited call of a cycle can   *)
(* fail.  The store holds one OPEN position whose take-profit the ticker    *)
(* has reached and one PLACED BUY order that the exchange has filled.       *)

OrchPosition ==
    openPosition([userId |-> "u1", pair |-> "btc_idr", amount |-> 2,
                  entryPrice |-> 100, cost |-> 200, signalId |-> None,
                  stopLoss |-> Some(90), takeProfit |-> Some(110),
                  entryTradeId |-> None])

OrchTrade ==
    [NewTrade("u1", [pair |-> "eth_idr", type |-> "buy", price |-> 100,
                     amount |-> Some(2), idr |-> None,
                     stopLoss |-> Some(90), takeProfit |-> Some(110)])
        EXCEPT !.orderId = Some(1), !.status = "PLACED"]

InitOrch ==
    /\ positions = <<OrchPosition>>
    /\ closeWrites = <<0>>
    /\ trades = <<OrchTrade>>
    /\ exchange = <<"filled">>
    /\ tickers = [pr \in Pairs |-> IF pr = "btc_idr" THEN Some(110) ELSE None]
    /\ signals = <<>>
    /\ now = 5
    /\ apiKeys = [u \in Users |-> TRUE]
    /\ settings = [u \in Users |-> [DefaultSettings EXCEPT !.botActive = (u = "u1"),
                                                           !.maxOpenPositions = 3]]
    /\ lastAnalysisTime = [u \in Users |-> 0]
    /\ monitor = [m \in MonitorRuns |-> IdleRun]
    /\ sync = [r \in SyncRuns |-> IdleRun]
    /\ sched = IdleRun
    /\ worker = [w \in Workers |-> IdleRun]
    /\ lastCall = NoCall
    /\ orch = StoppedOrch
    /\ cancel = IdleRun
    /\ omw = IdleRun
    /\ approve = [q \in Requests |-> IdleRun]

NextOrch ==
    \/ \E readM, readS \in BOOLEAN : StartScheduler(readM, readS)
    \/ StopScheduler
    \/ \E id \in 1..MaxTimers, fn \in CycleTypes, read \in BOOLEAN :
            TimerFire([id |-> id, fn |-> fn], read)
    \/ \E m \in MonitorRuns :
          \/ MonitorEval(m)
          \/ \E placed \in BOOLEAN : MonitorTrade(m, placed)
          \/ MonitorCloseRead(m)
          \/ MonitorCloseUpdate(m)
          \/ MonitorCloseFail(m)
          \/ MonitorNotify(m)
    \/ \E r \in SyncRuns :
          \/ \E answer \in {"throw", "status"} : SyncQuery(r, answer)
          \/ SyncUpdate(r)
          \/ SyncFind(r)
          \/ SyncOpen(r)
          \/ SyncNotify(r)
          \/ SyncFail(r)
    \/ \E pair \in Pairs : SchedRate(pair)
    \/ SchedCount
    \/ SchedFind
    \/ SchedFail
    \/ \E outcome \in GenOutcomes : SchedGenerate(outcome)

SpecOrch == InitOrch /\ [][NextOrch]_vars

----------------------------------------------------------------------------
(* routes/trading.ts: DELETE /trades/:id, the user's cancel request, and    *)
(* jobs/index.ts: orderMonitorWorker, the queue's order monitor.            *)

\* lines 292-309: findFirst of the user's trade that is PENDING, PLACED or
\* PARTIAL, then the user's keys; the request keeps the row it read
CancelFind(tradeId) ==
    /\ cancel.pc = "idle"
    /\ tradeId \in 1..Len(trades)
    /\ trades[tradeId].status \in {"PENDING", "PLACED", "PARTIAL"}
    /\ apiKeys[trades[tradeId].userId]
    /\ cancel' = [pc |-> "cancel", id |-> tradeId, trade |-> trades[tradeId]]
    /\ UNCHANGED <<storeVars, userVars, envVars, runVars, histVars, orch, omw, approve>>

\* lines 312-318: api.cancelOrder when the row has an order id.  The
\* exchange cancels an order that is on its book; any other answer is thrown
\* and the request ends with 500.
CancelOrder(answered) ==
    /\ cancel.pc = "cancel"
    /\ IF cancel.trade.orderId = None
       THEN /\ cancel' = [cancel EXCEPT !.pc = "update"]
            /\ UNCHANGED exchange
       ELSE LET orderId == Val(cancel.trade.orderId)
            IN  IF answered /\ exchange[orderId] \in {"open", "partial"}
                THEN /\ exchange' = [exchange EXCEPT ![orderId] = "cancelled"]
                     /\ cancel' = [cancel EXCEPT !.pc = "update"]
                ELSE /\ cancel' = IdleRun
                     /\ UNCHANGED exchange
    /\ UNCHANGED <<storeVars, userVars, tickers, now, runVars, histVars, orch, omw, approve>>

\* lines 321-324: trade.update({ where: { id }, data: { status: 'CANCELLED' } })
CancelUpdate ==
    /\ cancel.pc = "update"
    /\ trades' = [trades EXCEPT ![cancel.id].status = "CANCELLED"]
    /\ cancel' = IdleRun
    /\ UNCHANGED <<positions, signals, userVars, envVars, runVars, histVars, orch, omw, approve>>

\* orderMonitorWorker lines 351-374: a job for a trade with an exchange
\* order, up to the answer of api.getOrder; a throw fails the job, which
\* then writes nothing
OrderMonitorQuery(tradeId, answer) ==
    /\ omw.pc = "idle"
    /\ tradeId \in 1..Len(trades)
    /\ trades[tradeId].orderId # None
    /\ apiKeys[trades[tradeId].userId]
    /\ answer # "throw"
    /\ omw' = [pc |-> "update", tradeId |-> tradeId,
               order |-> GetOrder(Val(trades[tradeId].orderId),
                                  trades[tradeId].type, answer)]
    /\ UNCHANGED <<storeVars, userVars, envVars, runVars, histVars, orch, cancel, approve>>

\* lines 376-402: the status mapping, then trade.update with the new status
OrderMonitorUpdate ==
    /\ omw.pc = "update"
    /\ trades' = [trades EXCEPT
            ![omw.tradeId].status = NewStatus(OrderStatus(omw.order))]
    /\ omw' = IdleRun
    /\ UNCHANGED <<positions, signals, userVars, envVars, runVars, histVars, orch, cancel, approve>>

\* One PLACED BUY order of u1 on the exchange's book, watched by the order
\* sync, by order-monitor jobs and by the user, who may cancel it
InitOrder ==
    /\ positions = <<>>
    /\ closeWrites = <<>>
    /\ trades = <<OrchTrade>>
    /\ exchange = <<"open">>
    /\ tickers = [pr \in Pairs |-> None]
    /\ signals = <<>>
    /\ now = 5
    /\ apiKeys = [u \in Users |-> TRUE]
    /\ settings = [u \in Users |-> DefaultSettings]
    /\ lastAnalysisTime = [u \in Users |-> 0]
    /\ monitor = [m \in MonitorRuns |-> IdleRun]
    /\ sync = [r \in SyncRuns |-> IdleRun]
    /\ sched = IdleRun
    /\ worker = [w \in Workers |-> IdleRun]
    /\ lastCall = NoCall
    /\ orch = StoppedOrch
    /\ cancel = IdleRun
    /\ omw = IdleRun
    /\ approve = [q \in Requests |-> IdleRun]

NextOrder ==
    \/ \E status \in {"partial", "filled", "cancelled"} : ExchangeMove(1, status)
    \/ \E r \in SyncRuns :
          \/ SyncStart(r)
          \/ \E answer \in GetOrderAnswers : SyncQuery(r, answer)
          \/ SyncUpdate(r)
          \/ SyncFind(r)
          \/ SyncOpen(r)
          \/ SyncNotify(r)
          \/ SyncFail(r)
    \/ \E tradeId \in 1..MaxTrades : CancelFind(tradeId)
    \/ \E answered \in BOOLEAN : CancelOrder(answered)
    \/ CancelUpdate
    \/ \E tradeId \in 1..MaxTrades, answer \in GetOrderAnswers \ {"throw"} :
            OrderMonitorQuery(tradeId, answer)
    \/ OrderMonitorUpdate

SpecOrder == InitOrder /\ [][NextOrder]_vars

----------------------------------------------------------------------------
(* routes/signals.ts: PATCH /signals/:id, the user approves or rejects a    *)
(* PENDING signal.  Two requests for the same signal can be in flight.      *)

MinTradeCost == 50000
Balances == {100000, 1000000, 1000500}

Min(a, b) == IF a < b THEN a ELSE b

\* the response of a request that ended with an error before any write
Rejected(code) == [pc |-> "idle", res |-> code]

\* the findFirst that reads every status (the filter of line 308 left out)
FindSignal(signalId) ==
    IF signalId \in 1..Len(signals) THEN Some(signals[signalId]) ELSE None

\* lines 304-310: findFirst of the user's signal with status PENDING
FindPendingSignal(signalId) ==
    IF signalId \in 1..Len(signals) /\ signals[signalId].status = "PENDING"
    THEN Some(signals[signalId]) ELSE None


\* line 318: signal.validUntil < new Date()
Expired(signal) == signal.validUntil < now

\* lines 304-370: no PENDING signal is a 404; a signal past its deadline goes
\* to the update that expires it; a rejection goes to its update;
\* a SELL needs bot holdings, a bot position of the pair (which the request
\* keeps) and keys, each a 400 when missing; the request keeps the signal row
ApproveFind(q, signalId, status) ==
    /\ approve[q].pc = "idle"
    /\ LET read == FindPendingSignal(signalId)
       IN  IF read = None
           THEN approve' = [approve EXCEPT ![q] = Rejected(404)]
           ELSE LET signal == Val(read)
                    found == [id |-> signalId, signal |-> signal]
                    positionToClose == findPositionToClose(signal.userId, signal.pair)
                IN  approve' = [approve EXCEPT ![q] =
                       IF Expired(signal) THEN [pc |-> "expire"] @@ found
                       ELSE IF status = "REJECTED" THEN [pc |-> "reject"] @@ found
                       ELSE IF signal.action = "SELL"
                            THEN IF getBotPositionAmount(signal.userId, signal.pair) = 0
                                    \/ positionToClose = None
                                    \/ ~apiKeys[signal.userId]
                                 THEN Rejected(400)
                                 ELSE [pc |-> "sell",
                                       positionToClose |-> Val(positionToClose),
                                       sellAmount |-> positions[Val(positionToClose)].amount]
                                           @@ found
                       ELSE IF signal.action = "BUY"
                            THEN IF ~apiKeys[signal.userId] THEN Rejected(400)
                                 ELSE [pc |-> "buy", settings |-> settings[signal.userId]]
                                          @@ found
                       ELSE [pc |-> "hold"] @@ found]
    /\ UNCHANGED <<storeVars, userVars, envVars, runVars, histVars, orch, cancel, omw>>

\* lines 319-324: the expiry is written and the request is answered 400
ApproveExpire(q) ==
    /\ approve[q].pc = "expire"
    /\ signals' = [signals EXCEPT ![approve[q].id].status = "EXPIRED"]
    /\ approve' = [approve EXCEPT ![q] = Rejected(400)]
    /\ UNCHANGED <<positions, trades, userVars, envVars, runVars, histVars, orch, cancel, omw>>

\* lines 328-335: the rejection is written
ApproveReject(q) ==
    /\ approve[q].pc = "reject"
    /\ signals' = [signals EXCEPT ![approve[q].id].status = "REJECTED"]
    /\ approve' = [approve EXCEPT ![q] = IdleRun]
    /\ UNCHANGED <<positions, trades, userVars, envVars, runVars, histVars, orch, cancel,
                   omw>>

\* lines 497-552: the balance, the cost and the amount of the BUY, then
\* api.trade, which the exchange accepts or which throws
ApproveBuyTrade(q, idrBalance, accepted) ==
    /\ approve[q].pc = "buy"
    /\ LET run == approve[q]
           entryPrice == run.signal.entryPrice
           maxPositionPercent == Min(run.signal.amountPercent,
                                     run.settings.maxPositionPercent)
           cost == (idrBalance * maxPositionPercent) \div 100
           amount == cost \div entryPrice
       IN  IF cost < MinTradeCost \/ amount < 1 \/ ~accepted
           THEN /\ approve' = [approve EXCEPT ![q] = IdleRun]
                /\ UNCHANGED exchange
           ELSE /\ Len(exchange) < MaxOrders
                /\ exchange' = Append(exchange, "open")
                /\ approve' = [approve EXCEPT ![q] =
                        [pc |-> "record", id |-> run.id, signal |-> run.signal,
                         orderId |-> Len(exchange) + 1, amount |-> amount, cost |-> cost]]
    /\ UNCHANGED <<storeVars, userVars, tickers, now, runVars, histVars, orch, cancel, omw>>

\* lines 554-579: trade.create of the PLACED order, then the signal is APPROVED
ApproveBuyRecord(q) ==
    /\ approve[q].pc = "record"
    /\ LET run == approve[q]
       IN  /\ trades' = Append(trades,
                    [userId |-> run.signal.userId, orderId |-> Some(run.orderId),
                     pair |-> run.signal.pair, type |-> "BUY",
                     price |-> run.signal.entryPrice, amount |-> run.amount,
                     cost |-> run.cost, stopLoss |-> Some(run.signal.stopLoss),
                     takeProfit |-> Some(run.signal.targetPrice),
                     status |-> "PLACED", signalId |-> Some(run.id)])
           /\ signals' = [signals EXCEPT ![run.id].status = "APPROVED"]
    /\ approve' = [approve EXCEPT ![q] = IdleRun]
    /\ UNCHANGED <<positions, userVars, envVars, runVars, histVars, orch, cancel, omw>>

\* lines 384-396: api.trade of the SELL, which the exchange accepts or which
\* throws
ApproveSellTradeCall(q, accepted) ==
    /\ approve[q].pc = "sell"
    /\ IF accepted
       THEN /\ Len(exchange) < MaxOrders
            /\ exchange' = Append(exchange, "open")
            /\ approve' = [approve EXCEPT ![q] =
                    [@ EXCEPT !.pc = "close"] @@ [orderId |-> Len(exchange) + 1]]
       ELSE /\ approve' = [approve EXCEPT ![q] = IdleRun]
            /\ UNCHANGED exchange
    /\ UNCHANGED <<storeVars, userVars, tickers, now, runVars, closeWrites, orch, cancel, omw>>

ApproveSellTrade(q, accepted) ==
    /\ ApproveSellTradeCall(q, accepted)
    /\ UNCHANGED lastCall

\* The same step, with the order on record: line 383, the amount is that of
\* the position as the request read it
ApproveSellTradeAt(q, accepted) ==
    /\ ApproveSellTradeCall(q, accepted)
    /\ lastCall' = SellCall("PATCH /signals/:id", approve[q].signal.userId,
                            approve[q].signal.pair, approve[q].sellAmount, accepted)
    /\ lastCall'.sold <= MaxSold

\* lines 401-432: closePosition, trade.create of the PLACED SELL with the
\* order id, then the signal is EXECUTED
ApproveSellRecord(q) ==
    /\ approve[q].pc = "close"
    /\ LET run == approve[q]
           id == run.positionToClose
           exitPrice == run.signal.entryPrice
           params == [positionId |-> id, exitPrice |-> exitPrice, exitAmount |-> None,
                      reason |-> "SIGNAL", exitTradeId |-> Some(run.orderId)]
       IN  /\ closeWrites[id] < MaxCloses
           /\ positions' = [positions EXCEPT ![id] =
                    UpdatePosition(@, CloseData(positions[id], params, now))]
           /\ closeWrites' = [closeWrites EXCEPT ![id] = @ + 1]
           /\ trades' = Append(trades,
                    [userId |-> run.signal.userId, orderId |-> Some(run.orderId),
                     pair |-> run.signal.pair, type |-> "SELL",
                     price |-> exitPrice, amount |-> run.sellAmount,
                     cost |-> run.sellAmount * exitPrice, stopLoss |-> None,
                     takeProfit |-> None, status |-> "PLACED",
                     signalId |-> Some(run.id)])
           /\ signals' = [signals EXCEPT ![run.id].status = "EXECUTED"]
    /\ approve' = [approve EXCEPT ![q] = IdleRun]
    /\ UNCHANGED <<userVars, envVars, runVars, lastCall, orch, cancel, omw>>

\* lines 610-618: a signal that is neither BUY nor SELL gets the status of
\* the body
ApproveHold(q) ==
    /\ approve[q].pc = "hold"
    /\ signals' = [signals EXCEPT ![approve[q].id].status = "APPROVED"]
    /\ approve' = [approve EXCEPT ![q] = IdleRun]
    /\ UNCHANGED <<positions, trades, userVars, envVars, runVars, histVars, orch, cancel,
                   omw>>

\* u1 holds one OPEN btc_idr position and has one PENDING signal for
\* btc_idr, which POST /jobs/analyze saved whatever its action
ApproveSignals ==
    {NewSignal("u1", "btc_idr", g, "PENDING", None) :
        g \in {r \in GenResults : r.confidence = 80}}

InitApprove ==
    /\ positions \in {<<>>, <<OrchPosition>>}
    /\ closeWrites = [i \in 1..Len(positions) |-> 0]
    /\ trades = <<>>
    /\ exchange = <<>>
    /\ tickers = [pr \in Pairs |-> None]
    /\ now = 5
    /\ apiKeys = [u \in Users |-> TRUE]
    /\ settings = [u \in Users |-> DefaultSettings]
    /\ signals \in {<<sg>> : sg \in ApproveSignals}
    /\ lastAnalysisTime = [u \in Users |-> 0]
    /\ monitor = [m \in MonitorRuns |-> IdleRun]
    /\ sync = [r \in SyncRuns |-> IdleRun]
    /\ sched = IdleRun
    /\ worker = [w \in Workers |-> IdleRun]
    /\ lastCall = NoCall
    /\ orch = StoppedOrch
    /\ cancel = IdleRun
    /\ omw = IdleRun
    /\ approve = [q \in Requests |-> IdleRun]

NextApprove ==
    \/ \E q \in Requests :
          \/ \E signalId \in 1..MaxSignals, status \in {"APPROVED", "REJECTED"} :
                ApproveFind(q, signalId, status)
          \/ ApproveReject(q)
          \/ \E idrBalance \in Balances, accepted \in BOOLEAN :
                ApproveBuyTrade(q, idrBalance, accepted)
          \/ ApproveBuyRecord(q)
          \/ \E accepted \in BOOLEAN : ApproveSellTrade(q, accepted)
          \/ ApproveSellRecord(q)
          \/ ApproveHold(q)
    \/ \E orderId \in 1..MaxOrders, status \in {"partial", "filled", "cancelled"} :
            ExchangeMove(orderId, status)
    \/ \E r \in {"timer"} :
          \/ SyncStart(r)
          \/ \E answer \in {"throw", "status"} : SyncQuery(r, answer)
          \/ SyncUpdate(r)
          \/ SyncFind(r)
          \/ SyncOpen(r)
          \/ SyncNotify(r)
          \/ SyncFail(r)

SpecApprove == InitApprove /\ [][NextApprove]_vars

----------------------------------------------------------------------------
(* The order sync after an approved BUY: the user approves a PENDING BUY    *)
(* signal, the exchange fills the order, and the sync cycles, which the     *)
(* interval calls every minute, bring the store up to date.  Every awaited  *)
(* call of a cycle is answered in the end, but it can be answered with an   *)
(* error.                                                                   *)

InitRecover ==
    /\ positions = <<>>
    /\ closeWrites = <<>>
    /\ trades = <<>>
    /\ exchange = <<>>
    /\ tickers = [pr \in Pairs |-> None]
    /\ now = 5
    /\ apiKeys = [u \in Users |-> TRUE]
    /\ settings = [u \in Users |-> DefaultSettings]
    /\ signals \in {<<sg>> : sg \in {a \in ApproveSignals : a.action = "BUY"}}
    /\ lastAnalysisTime = [u \in Users |-> 0]
    /\ monitor = [m \in MonitorRuns |-> IdleRun]
    /\ sync = [r \in SyncRuns |-> IdleRun]
    /\ sched = IdleRun
    /\ worker = [w \in Workers |-> IdleRun]
    /\ lastCall = NoCall
    /\ orch = StoppedOrch
    /\ cancel = IdleRun
    /\ omw = IdleRun
    /\ approve = [q \in Requests |-> IdleRun]

\* A step of the sync invocation r that does not depend on a failure
SyncStep(r) ==
    \/ SyncStart(r)
    \/ \E answer \in {"throw", "status"} : SyncQuery(r, answer)
    \/ SyncUpdate(r)
    \/ SyncFind(r)
    \/ SyncOpen(r)
    \/ SyncNotify(r)

NextRecover ==
    \/ ApproveFind("q1", 1, "APPROVED")
    \/ \E idrBalance \in Balances, accepted \in BOOLEAN :
            ApproveBuyTrade("q1", idrBalance, accepted)
    \/ ApproveBuyRecord("q1")
    \/ \E status \in {"partial", "filled", "cancelled"} : ExchangeMove(1, status)
    \/ \E r \in SyncRuns : SyncStep(r) \/ SyncFail(r)

\* The interval calls the cycle again and again, and a cycle that awaits is
\* resumed: every step of a sync invocation that stays possible is taken
SpecRecover ==
    /\ InitRecover
    /\ [][NextRecover]_vars
    /\ \A r \in SyncRuns : WF_vars(SyncStep(r))

----------------------------------------------------------------------------
(* The rate limit of the scheduled analysis: u1 is the active user, with    *)
(* the analysis interval of the settings schema's default; the clock moves  *)
(* and runScheduledAnalysis is called by its interval or by                 *)
(* POST /jobs/scheduler/trigger { task: 'analysis' }.                       *)

DefaultIntervalMins == 30

InitRate ==
    /\ positions = <<>>
    /\ closeWrites = <<>>
    /\ now = DefaultIntervalMins
    /\ apiKeys = [u \in Users |-> TRUE]
    /\ settings = [u \in Users |-> [DefaultSettings EXCEPT
                        !.botActive = (u = "u1"),
                        !.analysisIntervalMins = DefaultIntervalMins]]
    /\ InitIdle

NextRate ==
    \/ ClockTick
    \/ SchedStart
    \/ \E pair \in Pairs : SchedRate(pair)
    \/ SchedCount
    \/ SchedFind
    \/ SchedFail
    \/ \E outcome \in GenOutcomes : SchedGenerateAt(outcome)

SpecRate == InitRate /\ [][NextRate]_vars

----------------------------------------------------------------------------
(* The notifications of the two cycles: the store holds one OPEN position   *)
(* and one PLACED BUY order the exchange has filled, both pairs trade at    *)
(* the take-profit, and every call of sendAndSaveNotification is on record  *)
(* with what came of it.                                                    *)

InitNotify ==
    /\ positions = <<OrchPosition>>
    /\ closeWrites = <<0>>
    /\ trades = <<OrchTrade>>
    /\ exchange = <<"filled">>
    /\ tickers = [pr \in Pairs |-> Some(110)]
    /\ signals = <<>>
    /\ now = 5
    /\ apiKeys = [u \in Users |-> TRUE]
    /\ settings = [u \in Users |-> DefaultSettings]
    /\ lastAnalysisTime = [u \in Users |-> 0]
    /\ monitor = [m \in MonitorRuns |-> IdleRun]
    /\ sync = [r \in SyncRuns |-> IdleRun]
    /\ sched = IdleRun
    /\ worker = [w \in Workers |-> IdleRun]
    /\ lastCall = NoCall
    /\ orch = StoppedOrch
    /\ cancel = IdleRun
    /\ omw = IdleRun
    /\ approve = [q \in Requests |-> IdleRun]

NextNotify ==
    \/ \E m \in MonitorRuns :
          \/ MonitorStart(m)
          \/ MonitorEval(m)
          \/ \E placed \in BOOLEAN : MonitorTrade(m, placed)
          \/ MonitorCloseRead(m)
          \/ MonitorCloseUpdate(m)
          \/ MonitorCloseFail(m)
          \/ \E outcome \in NotifyOutcomes : MonitorNotifyAt(m, outcome)
    \/ \E r \in SyncRuns :
          \/ SyncStart(r)
          \/ \E answer \in {"throw", "status"} : SyncQuery(r, answer)
          \/ SyncUpdate(r)
          \/ SyncFind(r)
          \/ SyncOpen(r)
          \/ SyncFail(r)
          \/ \E outcome \in NotifyOutcomes : SyncNotifyAt(r, outcome)

SpecNotify == InitNotify /\ [][NextNotify]_vars

----------------------------------------------------------------------------
(* The SELL orders of the bot: the store holds one OPEN position of u1 at   *)
(* its take-profit and a PENDING SELL signal for the same pair; the         *)
(* position monitor runs from its interval and from the manual trigger,     *)
(* two approve requests can be in flight, and every SELL sent to the        *)
(* exchange is on record.                                                   *)

SellSignal ==
    NewSignal("u1", "btc_idr",
              CHOOSE g \in GenResults : g.action = "SELL" /\ g.confidence = 80,
              "PENDING", None)

InitSell ==
    /\ positions = <<OrchPosition>>
    /\ closeWrites = <<0>>
    /\ trades = <<>>
    /\ exchange = <<>>
    /\ tickers = [pr \in Pairs |-> IF pr = "btc_idr" THEN Some(110) ELSE None]
    /\ now = 5
    /\ apiKeys = [u \in Users |-> TRUE]
    /\ settings = [u \in Users |-> DefaultSettings]
    /\ signals = <<SellSignal>>
    /\ lastAnalysisTime = [u \in Users |-> 0]
    /\ monitor = [m \in MonitorRuns |-> IdleRun]
    /\ sync = [r \in SyncRuns |-> IdleRun]
    /\ sched = IdleRun
    /\ worker = [w \in Workers |-> IdleRun]
    /\ lastCall = NoCall
    /\ orch = StoppedOrch
    /\ cancel = IdleRun
    /\ omw = IdleRun
    /\ approve = [q \in Requests |-> IdleRun]

NextSell ==
    \/ \E m \in MonitorRuns :
          \/ MonitorStart(m)
          \/ MonitorEval(m)
          \/ \E placed \in BOOLEAN : MonitorTradeAt(m, placed)
          \/ MonitorCloseRead(m)
          \/ MonitorCloseUpdate(m)
          \/ MonitorCloseFail(m)
          \/ MonitorNotify(m)
    \/ \E q \in Requests :
          \/ ApproveFind(q, 1, "APPROVED")
          \/ \E accepted \in BOOLEAN : ApproveSellTradeAt(q, accepted)
          \/ ApproveSellRecord(q)

SpecSell == InitSell /\ [][NextSell]_vars

----------------------------------------------------------------------------
(* The exits of the position monitor over time: u1 has credentials and two  *)
(* OPEN positions of one pair, the market moves, the interval of            *)
(* startScheduler keeps firing checkPositionsForSLTP and the manual         *)
(* trigger may call it as well.  The exchange refuses SELL orders, but not  *)
(* for ever, and the store answers.  Every SELL sent is on record.          *)

ExitPositions ==
    <<OrchPosition,
      openPosition([userId |-> "u1", pair |-> "btc_idr", amount |-> 1,
                    entryPrice |-> 100, cost |-> 100, signalId |-> None,
                    stopLoss |-> Some(90), takeProfit |-> None,
                    entryTradeId |-> None])>>

InitExit ==
    /\ positions = ExitPositions
    /\ closeWrites = <<0, 0>>
    /\ now = 1
    /\ apiKeys = [u \in Users |-> u = "u1"]
    /\ settings = [u \in Users |-> DefaultSettings]
    /\ InitIdle

\* A step of an invocation of checkPositionsForSLTP
MonitorStep(m) ==
    \/ MonitorEval(m)
    \/ \E placed \in BOOLEAN : MonitorTradeAt(m, placed)
    \/ MonitorCloseRead(m)
    \/ MonitorCloseUpdate(m)
    \/ MonitorNotify(m)

NextExit ==
    \/ \E ticker \in Opt(Prices) : TickerMove("btc_idr", ticker)
    \/ \E m \in MonitorRuns : MonitorStart(m) \/ MonitorStep(m)

\* setInterval(checkPositionsForSLTP, 60 * 1000) fires again and again and
\* every await of an invocation settles; an order sent again and again is
\* accepted at last
SpecExit ==
    /\ InitExit
    /\ [][NextExit]_vars
    /\ WF_vars(MonitorStart("timer"))
    /\ \A m \in MonitorRuns :
          /\ WF_vars(MonitorStep(m))
          /\ SF_vars(MonitorTradeAt(m, TRUE))

----------------------------------------------------------------------------
(* One tick of the scheduled analysis over two active users: u1 lets the    *)
(* bot trade (AUTONOMOUS), u2 approves by hand; the generator and the       *)
(* store calls of the loop can fail for either user, and every call of the  *)
(* generator is on record with what it returned.  The ticks follow one      *)
(* another within one reading of the clock, as the interval's tick and      *)
(* POST /jobs/scheduler/trigger { task: 'analysis' } can.                   *)

InitTick ==
    /\ positions = <<>>
    /\ closeWrites = <<>>
    /\ now = 5
    /\ apiKeys = [u \in Users |-> TRUE]
    /\ settings = SignalSettings
    /\ InitIdle

NextTick ==
    \/ SchedStart
    \/ \E pair \in Pairs : SchedRate(pair)
    \/ SchedCount
    \/ SchedFind
    \/ SchedFail
    \/ \E outcome \in GenOutcomes : SchedGenerateAt(outcome)

SpecTick == InitTick /\ [][NextTick]_vars

----------------------------------------------------------------------------
(* findPositionToClose over a store of up to MaxPositions positions of two  *)
(* users and two pairs, created in the order of their ids; positions are    *)
(* closed, wholly or in part, between the calls.                            *)

PickSeeds ==
    {openPosition(params) : params \in
        {q \in OpenPositionParams :
            q.amount = 2 /\ q.stopLoss = None /\ q.takeProfit = None}}

InitPick ==
    /\ \E n \in 0..MaxPositions : positions \in [1..n -> PickSeeds]
    /\ closeWrites = [i \in 1..Len(positions) |-> 0]
    /\ now = 1
    /\ apiKeys = [u \in Users |-> TRUE]
    /\ settings = [u \in Users |-> DefaultSettings]
    /\ InitIdle

\* findPositionToClose(userId, pair)
CallFindPositionToClose(userId, pair) ==
    /\ lastCall' = [op |-> "findPositionToClose",
                    params |-> [userId |-> userId, pair |-> pair],
                    result |-> findPositionToClose(userId, pair)]
    /\ UNCHANGED <<storeVars, userVars, envVars, runVars, closeWrites, procVars>>

NextPick ==
    \/ \E userId \in Users, pair \in Pairs : CallFindPositionToClose(userId, pair)
    \/ \E params \in ClosePositionParams :
            /\ params.exitPrice = 110 /\ params.reason = "MANUAL"
            /\ params.exitAmount \in {None, Some(1)}
            /\ params.positionId \in 1..Len(positions)
            /\ CallClosePosition(params)

SpecPick == InitPick /\ [][NextPick]_vars

----------------------------------------------------------------------------
(* PATCH /signals/:id around the deadline of a signal: the PENDING signal   *)
(* was created at minute 5 and is valid until minute 65, the clock reads 60 *)
(* and moves on, and two requests for the signal can be in flight.          *)

ExpireSignals ==
    {NewSignalAt("u1", "btc_idr", g, "PENDING", None, 5) :
        g \in {r \in GenResults : r.confidence = 80}}

InitExpire ==
    /\ positions = <<OrchPosition>>
    /\ closeWrites = <<0>>
    /\ trades = <<>>
    /\ exchange = <<>>
    /\ tickers = [pr \in Pairs |-> None]
    /\ now = 60
    /\ apiKeys = [u \in Users |-> TRUE]
    /\ settings = [u \in Users |-> DefaultSettings]
    /\ signals \in {<<sg>> : sg \in ExpireSignals}
    /\ lastAnalysisTime = [u \in Users |-> 0]
    /\ monitor = [m \in MonitorRuns |-> IdleRun]
    /\ sync = [r \in SyncRuns |-> IdleRun]
    /\ sched = IdleRun
    /\ worker = [w \in Workers |-> IdleRun]
    /\ lastCall = NoCall
    /\ orch = StoppedOrch
    /\ cancel = IdleRun
    /\ omw = IdleRun
    /\ approve = [q \in Requests |-> IdleRun]

NextExpire ==
    \/ ClockTick
    \/ \E q \in Requests :
          \/ \E status \in {"APPROVED", "REJECTED"} : ApproveFind(q, 1, status)
          \/ ApproveExpire(q)
          \/ ApproveReject(q)
          \/ \E idrBalance \in Balances, accepted \in BOOLEAN :
                ApproveBuyTrade(q, idrBalance, accepted)
          \/ ApproveBuyRecord(q)
          \/ \E accepted \in BOOLEAN : ApproveSellTrade(q, accepted)
          \/ ApproveSellRecord(q)
          \/ ApproveHold(q)

SpecExpire == InitExpire /\ [][NextExpire]_vars

----------------------------------------------------------------------------
(* One cycle of the order sync over two tracked orders: two BUY orders of   *)
(* u1, or one of u1 and one of u2, were placed with POST /trades and the    *)
(* exchange accepted them as orders 1 and 2; getOrder and the store can     *)
(* fail at every await.                                                     *)

\* The trades of POST /trades after the exchange accepted them
CycleTrades(userIds) ==
    [k \in 1..2 |->
        [NewTrade(userIds[k],
                  [pair |-> "btc_idr", type |-> "buy", price |-> 100, amount |-> Some(2),
                   idr |-> None, stopLoss |-> Some(90), takeProfit |-> Some(110)])
            EXCEPT !.orderId = Some(k), !.status = "PLACED"]]

InitCycle ==
    /\ positions = <<>>
    /\ closeWrites = <<>>
    /\ \E userIds \in {<<"u1", "u2">>, <<"u1", "u1">>} : trades = CycleTrades(userIds)
    /\ signals = <<>>
    /\ exchange \in [1..2 -> {"open", "partial", "filled", "cancelled"}]
    /\ tickers = [pr \in Pairs |-> None]
    /\ now = 1
    /\ apiKeys = [u \in Users |-> TRUE]
    /\ settings = [u \in Users |-> DefaultSettings]
    /\ lastAnalysisTime = [u \in Users |-> 0]
    /\ monitor = [m \in MonitorRuns |-> IdleRun]
    /\ sync = [r \in SyncRuns |-> IdleRun]
    /\ sched = IdleRun
    /\ worker = [w \in Workers |-> IdleRun]
    /\ lastCall = NoCall
    /\ orch = StoppedOrch
    /\ cancel = IdleRun
    /\ omw = IdleRun
    /\ approve = [q \in Requests |-> IdleRun]

NextCycle ==
    \E r \in SyncRuns :
        \/ SyncStart(r)
        \/ \E answer \in {"throw", "status"} : SyncQuery(r, answer)
        \/ SyncUpdate(r)
        \/ SyncFind(r)
        \/ SyncOpen(r)
        \/ SyncNotify(r)
        \/ SyncFail(r)

SpecCycle == InitCycle /\ [][NextCycle]_vars

----------------------------------------------------------------------------
(* routes/trading.ts: POST /trades with its answer on record, next to the   *)
(* order sync.  The try of lines 241-273 holds both api.trade and the       *)
(* trade.update that records the order id; its catch marks the trade FAILED *)
(* and the outer catch answers 500.                                         *)

\* api.trade returns and the update is written; api.trade throws; api.trade
\* returns and the update of lines 254-261 throws
PlaceOrderOutcomes == {"placed", "refused", "unrecorded"}

\* lines 241-280: the rest of the handler after trade.create
PlaceOrderAnswer(tradeId, outcome) ==
    /\ tradeId \in 1..Len(trades)
    /\ trades[tradeId].status = "PENDING" /\ trades[tradeId].orderId = None
    /\ exchange' = IF outcome = "refused" THEN exchange ELSE Append(exchange, "open")
    /\ trades' = IF outcome = "placed"
                 THEN [trades EXCEPT ![tradeId].orderId = Some(Len(exchange) + 1),
                                     ![tradeId].status = "PLACED"]
                 ELSE [trades EXCEPT ![tradeId].status = "FAILED"]
    /\ lastCall' = [op |-> "placeOrder", tradeId |-> tradeId,
                    res |-> IF outcome = "placed" THEN 201 ELSE 500]
    /\ UNCHANGED <<positions, signals, userVars, tickers, now, runVars, closeWrites, procVars>>

InitPlace ==
    /\ positions = <<>>
    /\ closeWrites = <<>>
    /\ now = 1
    /\ apiKeys = [u \in Users |-> TRUE]
    /\ settings = [u \in Users |-> DefaultSettings]
    /\ InitIdle

NextPlace ==
    \/ \E userId \in Users, body \in PlaceOrderBodies : PlaceOrderCreate(userId, body)
    \/ \E tradeId \in 1..MaxTrades, outcome \in PlaceOrderOutcomes :
            PlaceOrderAnswer(tradeId, outcome)
    \/ \E orderId \in 1..MaxTrades, status \in {"partial", "filled", "cancelled"} :
            ExchangeMove(orderId, status)
    \/ \E r \in SyncRuns :
            \/ SyncStart(r)
            \/ \E answer \in {"throw", "status"} : SyncQuery(r, answer)
            \/ SyncUpdate(r)
            \/ SyncFind(r)
            \/ SyncOpen(r)
            \/ SyncNotify(r)
            \/ SyncFail(r)

SpecPlace == InitPlace /\ [][NextPlace]_vars

----------------------------------------------------------------------------
(* C1: once a position is CLOSED its exit fields are set and never change, *)
(* and every later closePosition on it fails and leaves the row unchanged. *)

ExitFieldsSet(p) ==
    /\ p.exitPrice # None /\ p.exitAmount # None /\ p.pnl # None
    /\ p.pnlPercent # None /\ p.closeReason # None /\ p.closedAt # None

C1_ClosedImmutable ==
    [][\A id \in 1..Len(positions) :
          positions[id].status = "CLOSED" =>
            /\ ExitFieldsSet(positions[id])
            /\ positions'[id] = positions[id]
            /\ closeWrites'[id] = closeWrites[id]]_vars

----------------------------------------------------------------------------
(* C2: when two closePosition calls on the same OPEN position interleave,  *)
(* at most one of them succeeds: the exit fields of a position are written *)
(* at most once.                                                           *)

C2_ExitWrittenOnce ==
    \A id \in 1..Len(positions) : closeWrites[id] <= 1

----------------------------------------------------------------------------
(* C3: runs of syncPendingOrders, one after the other or overlapping, over  *)
(* a filled BUY order create at most one Position with that order's id as   *)
(* its entry-order id.                                                      *)

C3_OnePositionPerOrder ==
    \A a, b \in 1..Len(positions) :
        (/\ positions[a].entryTradeId # None
         /\ positions[a].entryTradeId = positions[b].entryTradeId
         /\ positions[a].userId = positions[b].userId) => a = b

----------------------------------------------------------------------------
(* C4: for every user and pair, getBotPositionAmount is at most the sum of  *)
(* the amounts of that user's FILLED BUY trades of the pair.                *)

FilledBuyAmount(userId, pair) ==
    LET ids == SelectSeq(Ids(trades), LAMBDA i :
                    /\ trades[i].userId = userId /\ trades[i].pair = pair
                    /\ trades[i].type = "BUY" /\ trades[i].status = "FILLED")
    IN  SumSeq([k \in 1..Len(ids) |-> trades[ids[k]].amount])

C4_HoldingsWithinFilledBuys ==
    \A userId \in Users, pair \in Pairs :
        getBotPositionAmount(userId, pair) <= FilledBuyAmount(userId, pair)

----------------------------------------------------------------------------
(* C5: every Position carries the exchange order id of a BUY trade of its   *)
(* user that is FILLED: no Position is created when an order is placed or   *)
(* a signal is approved.                                                    *)

C5_PositionHasFilledBuy ==
    \A id \in 1..Len(positions) :
        /\ positions[id].entryTradeId # None
        /\ \E t \in 1..Len(trades) :
                /\ trades[t].orderId = positions[id].entryTradeId
                /\ trades[t].userId = positions[id].userId
                /\ trades[t].type = "BUY"
                /\ trades[t].status = "FILLED"

----------------------------------------------------------------------------
(* C6: checkExitConditions returns at most one exit reason for a position  *)
(* and a price: STOP_LOSS exactly when the stop-loss is set and            *)
(* currentPrice <= stopLoss (also when the take-profit is reached as       *)
(* well), TAKE_PROFIT exactly when that does not hold and the take-profit  *)
(* is set and currentPrice >= takeProfit, and no action otherwise.         *)

StopLossHit(p, price) == p.stopLoss # None /\ price <= Val(p.stopLoss)
TakeProfitHit(p, price) == p.takeProfit # None /\ price >= Val(p.takeProfit)

C6_ExitReason ==
    lastCall.op = "checkExitConditions" =>
        LET p == positions[lastCall.params.positionId]
            price == lastCall.params.currentPrice
        IN  /\ lastCall.result \in {"STOP_LOSS", "TAKE_PROFIT", "NONE"}
            /\ (lastCall.result = "STOP_LOSS") <=> StopLossHit(p, price)
            /\ (lastCall.result = "TAKE_PROFIT") <=>
                    (~StopLossHit(p, price) /\ TakeProfitHit(p, price))
            /\ (lastCall.result = "NONE") <=>
                    (~StopLossHit(p, price) /\ ~TakeProfitHit(p, price))

\* Both thresholds are reached by the price and the reason is STOP_LOSS.
C6_Witness ==
    /\ lastCall.op = "checkExitConditions"
    /\ StopLossHit(positions[lastCall.params.positionId], lastCall.params.currentPrice)
    /\ TakeProfitHit(positions[lastCall.params.positionId], lastCall.params.currentPrice)
    /\ lastCall.result = "STOP_LOSS"

----------------------------------------------------------------------------
(* C7: closePosition on an existing OPEN position uses the full amount     *)
(* only when exitAmount is absent, records pnl = exitAmount * (exitPrice - *)
(* entryPrice) and pnlPercent = (exitPrice - entryPrice) / entryPrice *    *)
(* 100, and sets PARTIALLY_CLOSED when exitAmount < the full amount and    *)
(* CLOSED otherwise; for an unknown id it fails with NotFound and writes   *)
(* nothing.                                                                *)

ClaimedClose(p, params) ==
    LET exitAmount == IF params.exitAmount = None THEN p.amount
                      ELSE Val(params.exitAmount)
    IN  [status     |-> IF exitAmount < p.amount THEN "PARTIALLY_CLOSED" ELSE "CLOSED",
         exitAmount |-> Some(exitAmount),
         pnl        |-> Some(exitAmount * (params.exitPrice - p.entryPrice))]

C7_CloseContract ==
    [][\A params \in ClosePositionParams :
          CallClosePosition(params) =>
            IF params.positionId \notin 1..Len(positions)
            THEN lastCall'.result = "NotFound" /\ positions' = positions
            ELSE positions[params.positionId].status = "OPEN" =>
                   LET p == positions[params.positionId]
                       q == positions'[params.positionId]
                   IN  /\ lastCall'.result = "ok"
                       /\ q.status = ClaimedClose(p, params).status
                       /\ q.exitAmount = ClaimedClose(p, params).exitAmount
                       /\ q.pnl = ClaimedClose(p, params).pnl
                       /\ Val(q.pnlPercent)[1] * p.entryPrice =
                            (params.exitPrice - p.entryPrice) * 100 * Val(q.pnlPercent)[2]
      ]_vars

----------------------------------------------------------------------------
(* C8: no Signal row has action HOLD: none of the paths that call           *)
(* generateSignal (scheduled analysis, analysis worker, POST                *)
(* /signals/generate, POST /jobs/analyze) saves a HOLD result.              *)

C8_NoHoldSignal ==
    \A k \in 1..Len(signals) : signals[k].action # "HOLD"

----------------------------------------------------------------------------
(* C9: every SKIPPED Signal has a confidence strictly below its user's      *)
(* minimum confidence as it was when the signal was created.                *)

----------------------------------------------------------------------------
(* C10: in a run of runScheduledAnalysis, for a user that passed the rate   *)
(* limit, when the user's OPEN positions have reached maxOpenPositions or   *)
(* the user has an OPEN position of the chosen pair, the run goes on to the *)
(* next user without calling generateSignal and without saving a Signal:    *)
(* the run calls generateSignal and saves only in the step that follows     *)
(* both checks.                                                             *)

SchedSkipsUser == sched'.pc \in {"rate", "idle"} /\ signals' = signals

C10_NoAnalysisAtLimit ==
    [][sched' # sched =>
        /\ (/\ sched.pc = "count"
            /\ OpenPositionsCount(sched.activeUsers[sched.i].userId)
                    >= sched.activeUsers[sched.i].settings.maxOpenPositions)
                => SchedSkipsUser
        /\ (/\ sched.pc = "find"
            /\ ExistingPosition(sched.activeUsers[sched.i].userId, Val(sched.pair)))
                => SchedSkipsUser
        /\ sched'.pc = "find" => sched.pc = "count"
        /\ sched'.pc = "generate" => sched.pc = "find"
        /\ signals' # signals => sched.pc = "generate"]_vars

C10_Witness ==
    /\ sched.pc = "rate"
    /\ sched.log \in {"max positions reached", "position already open"}
    /\ OpenPositionsCount(sched.activeUsers[sched.i - 1].userId) > 0

----------------------------------------------------------------------------
(* C11: in one cycle of checkPositionsForSLTP a failure of the SELL order   *)
(* or of closePosition for one position ends only that position's           *)
(* handling: the run goes on with the next position of its snapshot (or     *)
(* ends normally after the last one), and a position whose SELL was placed  *)
(* and whose close is written is CLOSED by that write.                      *)

\* The run m is handling a position and takes a step
MonitorHandles(m) ==
    /\ monitor[m].pc \in {"trade", "close", "update", "notify"}
    /\ monitor'[m] # monitor[m]

\* The step goes on within the handling of the same position
MonitorAdvances(m) ==
    \/ monitor[m].pc = "trade" /\ monitor'[m].pc = "close"
    \/ monitor[m].pc = "close" /\ monitor'[m].pc = "update"
    \/ monitor[m].pc = "update" /\ monitor'[m].pc = "notify"

C11_FailureIsolated ==
    [][\A m \in MonitorRuns :
          MonitorHandles(m) /\ ~MonitorAdvances(m) =>
              LET run == monitor[m]
                  id == run.openPositions[run.i]
              IN  /\ monitor'[m] = MonitorNext(run)
                  /\ closeWrites'[id] # closeWrites[id] =>
                        positions'[id].status = "CLOSED"]_vars

\* A run whose first position failed (it is still OPEN, triggered at the
\* prices the run read, with credentials) has placed the SELL of its second
\* position and is about to write its close
C11_Witness ==
    \E m \in MonitorRuns :
        /\ monitor[m].pc = "update"
        /\ monitor[m].i = 2
        /\ LET run == monitor[m]
               first == positions[run.openPositions[1]]
           IN  /\ first.status = "OPEN"
               /\ run.keys[first.userId]
               /\ run.summaries[first.pair] # None
               /\ checkExitConditions(first, Val(run.summaries[first.pair])) # "NONE"
               /\ monitor["timer"].pc = "idle" \/ monitor["manual"].pc = "idle"

----------------------------------------------------------------------------
(* C12: after any sequence of startScheduler and stopScheduler at most one  *)
(* interval is armed for each of the three cycle functions, and a call of   *)
(* startScheduler while running arms no interval and calls no cycle.        *)

TimersOf(fn) == {t \in orch.timers : t.fn = fn}

\* The step is a call of startScheduler
StartCalled ==
    /\ orch'.call.op = "start"
    /\ orch'.call.n # orch.call.n

C12_OneTimerPerCycle ==
    [][/\ \A fn \in CycleTypes : Cardinality(TimersOf(fn))' <= 1
       /\ StartCalled /\ orch.isRunning =>
            /\ orch' = [orch EXCEPT !.call = orch'.call]
            /\ UNCHANGED <<storeVars, runVars>>]_vars

\* startScheduler was called while running, with the three intervals armed
C12_Witness ==
    /\ orch.call.op = "start" /\ orch.call.wasRunning
    /\ orch.isRunning
    /\ \A fn \in CycleTypes : Cardinality(TimersOf(fn)) = 1

----------------------------------------------------------------------------
(* C13: once stopScheduler has returned, no cycle that was called before it *)
(* writes to the store any more (every cycle of this specification is       *)
(* called by startScheduler or by an interval, so after a stop and before   *)
(* the next start every invocation in flight was called before the stop).   *)

C13_StopAwaitsCycles ==
    [][orch.call.op = "stop" /\ orch'.call = orch.call =>
            UNCHANGED storeVars]_vars

----------------------------------------------------------------------------
(* C14: no cycle function lets a failure out.  Whatever awaited call fails, *)
(* the step leaves the orchestrator as it was, with an interval armed for   *)
(* every cycle function while it runs, and the invocation is nearer to its  *)
(* end: it goes on within the same item, moves to the next item of its      *)
(* snapshot, or returns.                                                    *)

\* How far an invocation is from its return: the items left in its snapshot
\* and the steps left for the item in hand
StepsLeft(run, items, steps) ==
    IF run.pc = "idle" THEN 0
    ELSE IF run.pc \notin DOMAIN steps THEN 1000
    ELSE (Len(items) + 1 - run.i) * 5 + steps[run.pc]

MonitorLeft(run) ==
    StepsLeft(run, IF run.pc \in {"idle", "rejected"} THEN <<>> ELSE run.openPositions,
              [loop |-> 5, trade |-> 4, close |-> 3, update |-> 2, notify |-> 1])

SyncLeft(run) ==
    StepsLeft(run, IF run.pc = "idle" THEN <<>> ELSE run.pendingTrades,
              [query |-> 5, update |-> 4, find |-> 3, open |-> 2, notify |-> 1])

SchedLeft(run) ==
    StepsLeft(run, IF run.pc = "idle" THEN <<>> ELSE run.activeUsers,
              [rate |-> 4, count |-> 3, find |-> 2, generate |-> 1])

C14_CyclesNeverThrow ==
    [][/\ orch'.call = orch.call => orch' = orch
       /\ orch'.isRunning => \A fn \in CycleTypes : TimersOf(fn)' # {}
       /\ \A m \in MonitorRuns :
            monitor[m].pc # "idle" /\ monitor'[m] # monitor[m] =>
                MonitorLeft(monitor'[m]) < MonitorLeft(monitor[m])
       /\ \A r \in SyncRuns :
            sync[r].pc # "idle" /\ sync'[r] # sync[r] =>
                SyncLeft(sync'[r]) < SyncLeft(sync[r])
       /\ sched.pc # "idle" /\ sched' # sched =>
                SchedLeft(sched') < SchedLeft(sched)]_vars

\* The order sync has persisted FILLED for the BUY order and then failed
\* before the position was created; its invocations have returned and the
\* orchestrator runs with its three intervals armed
C14_Witness ==
    /\ trades[1].status = "FILLED" /\ trades[1].type = "BUY"
    /\ \A id \in 1..Len(positions) : positions[id].entryTradeId # trades[1].orderId
    /\ \A r \in SyncRuns : sync[r].pc = "idle"
    /\ orch.isRunning
    /\ \A fn \in CycleTypes : TimersOf(fn) # {}

----------------------------------------------------------------------------
(* C15: once the status of a tracked order is FILLED, CANCELLED or FAILED   *)
(* it never changes again, whatever the order sync, a cancel request and    *)
(* the order-monitor worker do in whatever order.                           *)

TerminalStatuses == {"FILLED", "CANCELLED", "FAILED"}

C15_TerminalStatusFinal ==
    [][\A id \in 1..Len(trades) :
            trades[id].status \in TerminalStatuses =>
                trades'[id].status = trades[id].status]_vars

----------------------------------------------------------------------------
(* C16: every change of a tracked order's status goes forward along         *)
(* PENDING, PLACED, PARTIAL, then FILLED, CANCELLED or FAILED; in           *)
(* particular a PARTIAL order is never set back to PLACED.                  *)

StatusRank(status) ==
    CASE status = "PENDING" -> 0
      [] status = "PLACED" -> 1
      [] status = "PARTIAL" -> 2
      [] status \in TerminalStatuses -> 3

C16_StatusGoesForward ==
    [][\A id \in 1..Len(trades) :
            trades'[id].status # trades[id].status =>
                /\ trades[id].status \notin TerminalStatuses
                /\ StatusRank(trades'[id].status) > StatusRank(trades[id].status)]_vars

----------------------------------------------------------------------------
(* C17: a signal is approved at most once: whatever approve requests are    *)
(* made for it, at most one order is placed on the exchange and at most one *)
(* trade row is created for it, and once it is EXECUTED, REJECTED or        *)
(* EXPIRED its status never changes.  (Every order on the exchange here was *)
(* placed by an approve request.)                                           *)

TradesOfSignal(signalId) ==
    {t \in 1..Len(trades) : trades[t].signalId = Some(signalId)}

C17_ApprovedOnce ==
    [][/\ Len(exchange') <= Len(signals')
       /\ \A id \in 1..Len(signals) :
            /\ Cardinality(TradesOfSignal(id))' <= 1
            /\ signals[id].status \in {"EXECUTED", "REJECTED", "EXPIRED"} =>
                    signals'[id].status = signals[id].status]_vars

----------------------------------------------------------------------------
(* C18: every EXECUTED signal has a trade row linked to it that carries an  *)
(* exchange order id: a signal becomes EXECUTED only after the exchange has *)
(* accepted an order for it.                                                *)

C18_ExecutedHasOrder ==
    \A id \in 1..Len(signals) :
        signals[id].status = "EXECUTED" =>
            \E t \in TradesOfSignal(id) : trades[t].orderId # None

----------------------------------------------------------------------------
(* C19: a FILLED BUY order yields exactly one position: also when a cycle   *)
(* fails after it has persisted FILLED, a later cycle creates the position, *)
(* so that in the end the order has exactly one linked position and its     *)
(* signal is EXECUTED.                                                      *)

PositionsOfTrade(t) ==
    {id \in 1..Len(positions) :
        /\ positions[id].userId = trades[t].userId
        /\ positions[id].entryTradeId = trades[t].orderId}

FilledBuy(t) ==
    /\ t \in 1..Len(trades)
    /\ trades[t].type = "BUY"
    /\ trades[t].status = "FILLED"

C19_FilledBuyGetsPosition ==
    FilledBuy(1) ~>
        /\ Cardinality(PositionsOfTrade(1)) = 1
        /\ signals[Val(trades[1].signalId)].status = "EXECUTED"

----------------------------------------------------------------------------
(* C20: between two calls of the signal generator that runScheduledAnalysis *)
(* makes for the same user at least the user's analysisIntervalMins         *)
(* (30 when unset) minutes pass.                                            *)

MinInterval(userId) ==
    IF settings[userId].analysisIntervalMins # 0
    THEN settings[userId].analysisIntervalMins ELSE 30

C20_RateLimit ==
    [][(/\ sched.pc = "generate" /\ sched' # sched
        /\ lastCall.op = "generateSignal"
        /\ lastCall'.userId = lastCall.userId) =>
            lastCall'.at - lastCall.at >= MinInterval(lastCall.userId)]_vars

----------------------------------------------------------------------------
(* C21: a request to approve or reject a signal that is not PENDING, and a  *)
(* request to approve a SELL signal while the bot's holdings of the pair    *)
(* are 0, is answered with an error and changes no signal, position or      *)
(* tracked order and places no exchange order; only a PENDING signal, and   *)
(* for a SELL one with holdings, lets a request go on to its writes.        *)

HoldsNothing(signal) ==
    signal.action = "SELL" /\ getBotPositionAmount(signal.userId, signal.pair) = 0

InvalidState(signalId, status) ==
    \/ signals[signalId].status # "PENDING"
    \/ status = "APPROVED" /\ HoldsNothing(signals[signalId])

----------------------------------------------------------------------------
(* C22: every position whose status is OPEN has an amount greater than 0,   *)
(* also the positions that syncPendingOrders opens for filled BUY orders    *)
(* placed with an IDR amount and no coin amount.                            *)

C22_OpenAmountPositive ==
    \A id \in 1..Len(positions) :
        positions[id].status = "OPEN" => positions[id].amount > 0

----------------------------------------------------------------------------
(* C23: a position has cost = amount * entryPrice when it is created, for   *)
(* positions of BUY orders placed by a signal approval (amount is           *)
(* floor(cost / entryPrice)) and of manually placed orders alike.           *)

C23_CostIsAmountTimesPrice ==
    [][Len(positions') > Len(positions) =>
          LET position == positions'[Len(positions')]
          IN  position.cost = position.amount * position.entryPrice]_vars

----------------------------------------------------------------------------
(* C24: a failure of sendAndSaveNotification (of the store write of the     *)
(* notification or of the socket send) does not abort the cycle it is       *)
(* called from: the close or the new position written before it stays as    *)
(* written, the run goes on with the next position or order of its          *)
(* snapshot (or returns after the last), and no error leaves the cycle.     *)

\* The call on record did not deliver its notification
NotifyFailed(call) ==
    call.op = "sendAndSaveNotification" /\ call.outcome # "sent"

C24_NotifyFailureIsolated ==
    [][/\ \A m \in MonitorRuns :
            monitor[m].pc = "notify" /\ monitor'[m] # monitor[m] =>
                /\ UNCHANGED <<storeVars, closeWrites>>
                /\ positions'[monitor[m].openPositions[monitor[m].i]].status = "CLOSED"
                /\ monitor'[m] = MonitorNext(monitor[m])
       /\ \A r \in SyncRuns :
            sync[r].pc = "notify" /\ sync'[r] # sync[r] =>
                /\ UNCHANGED <<storeVars, closeWrites>>
                /\ PositionsOfTrade(sync[r].pendingTrades[sync[r].i].id) # {}
                /\ sync'[r] = SyncNext(sync[r])]_vars

\* The notification of the first of two closed positions failed and the run
\* has gone on to write the close of the second
C24_Witness ==
    \E m \in MonitorRuns :
        /\ monitor[m].pc = "notify" /\ monitor[m].i = 2
        /\ NotifyFailed(lastCall)
        /\ lastCall.caller = "checkPositionsForSLTP"
        /\ lastCall.about = monitor[m].openPositions[1]
        /\ \A id \in 1..Len(positions) : positions[id].status = "CLOSED"

----------------------------------------------------------------------------
(* C25: every SELL order the position monitor or a signal approval sends    *)
(* to the exchange for a user and pair has an amount no greater than the    *)
(* sum of the amounts of that user's OPEN positions of the pair when it is  *)
(* sent, and the amounts the exchange has accepted for sale never add up    *)
(* to more than the bot bought of the pair.                                 *)

\* What the bot bought of the pair for the user: the amounts of all the
\* positions opened for it
TotalBought(userId, pair) ==
    LET ids == SelectSeq(Ids(positions),
                  LAMBDA i : positions[i].userId = userId /\ positions[i].pair = pair)
    IN  SumSeq([i \in 1..Len(ids) |-> positions[ids[i]].amount])

C25_SellsWithinHoldings ==
    lastCall.op = "trade" =>
        /\ lastCall.amount <= lastCall.holdings
        /\ lastCall.sold <= TotalBought(lastCall.userId, lastCall.pair)

----------------------------------------------------------------------------
(* C26: checkPositionsForSLTP closes a position only after the exchange     *)
(* has accepted the SELL order for it in the same cycle: when api.trade     *)
(* fails the cycle writes nothing to the position (it stays OPEN with its   *)
(* exit fields unset), sends no notification for it and goes on with the    *)
(* next position.                                                           *)

C26_CloseOnlyAfterSell ==
    [][\A m \in MonitorRuns :
          /\ (monitor[m].pc = "trade" /\ monitor'[m] # monitor[m] /\ ~lastCall'.accepted) =>
                /\ UNCHANGED <<positions, closeWrites>>
                /\ monitor'[m] = MonitorNext(monitor[m])
          /\ monitor[m].pc \in {"close", "update"} =>
                monitor[m].tradeResult = "placed"
          /\ monitor'[m].pc = "notify" /\ monitor[m].pc # "notify" =>
                monitor[m].pc = "update"]_vars

\* The SELL of the only position has failed and the cycle has returned: the
\* position is OPEN, nothing was written to it and no exit field is set
C26_Witness ==
    /\ lastCall.op = "trade" /\ ~lastCall.accepted
    /\ lastCall.caller = "checkPositionsForSLTP"
    /\ \A m \in MonitorRuns : monitor[m].pc = "idle"
    /\ \A q \in Requests : approve[q].pc = "idle"
    /\ \A id \in 1..Len(positions) :
          /\ positions[id].status = "OPEN"
          /\ closeWrites[id] = 0
          /\ positions[id].exitPrice = None /\ positions[id].closedAt = None
          /\ positions[id].pnl = None /\ positions[id].closeReason = None

----------------------------------------------------------------------------
(* C27: when from some point on the exit condition of a position holds at   *)
(* the market price, its user has credentials and the exchange does not     *)
(* refuse the SELL for ever, the position is CLOSED in the end, given that  *)
(* the interval of the position monitor keeps firing; a SELL the exchange   *)
(* refused is not sent again in the same cycle, the cycle goes on with the  *)
(* next position.                                                           *)

\* The position's stop-loss or take-profit is reached at the price of the
\* next getSummaries
ExitHolds(id) ==
    /\ tickers[positions[id].pair] # None
    /\ checkExitConditions(positions[id], Val(tickers[positions[id].pair])) # "NONE"

\* The run has sent the SELL of its position in hand and was refused: it
\* leaves that position for this cycle
NoRetryInCycle(m) ==
    (monitor[m].pc = "trade" /\ monitor'[m] # monitor[m] /\ monitor'[m].pc # "close") =>
        \/ monitor'[m].pc = "idle"
        \/ monitor'[m].pc = "loop" /\ monitor'[m].i = monitor[m].i + 1

----------------------------------------------------------------------------
(* C28: when generateSignal hands runScheduledAnalysis a BUY or SELL result *)
(* whose confidence is below the user's minConfidenceToTrade, a signal with *)
(* status SKIPPED is saved for that user.                                   *)

\* The last call of the generator returned a BUY or SELL below the threshold
\* of the user it was made for
LowConfidenceResult(call) ==
    /\ call.op = "generateSignal"
    /\ call.outcome.kind = "result"
    /\ call.outcome.result.action # "HOLD"
    /\ call.outcome.result.confidence < call.settings.minConfidenceToTrade

C28_LowConfidenceSkipped ==
    LowConfidenceResult(lastCall) =>
        \E id \in 1..Len(signals) :
            /\ signals[id].userId = lastCall.userId
            /\ signals[id].status = "SKIPPED"

----------------------------------------------------------------------------
(* C29: a BUY or SELL result at or above the threshold is saved by          *)
(* runScheduledAnalysis as PENDING when the user is not in autonomous mode; *)
(* for a user whose tradingMode is AUTONOMOUS the tick goes on to execute   *)
(* it as an approval would: an order is placed on the exchange, the tracked *)
(* order is recorded PLACED and the signal has left PENDING.                *)

\* An approval has executed the signal
ExecutedAsApproved(id) ==
    /\ signals[id].status # "PENDING"
    /\ exchange # <<>>
    /\ \E t \in 1..Len(trades) :
          trades[t].signalId = Some(id) /\ trades[t].status = "PLACED"

C29_AutonomousExecutes ==
    sched.pc = "idle" =>
        \A id \in 1..Len(signals) :
            /\ signals[id].createdAs = "PENDING"
            /\ ( /\ settings[signals[id].userId].tradingMode = "AUTONOMOUS"
                 /\ signals[id].action = "BUY" ) => ExecutedAsApproved(id)

----------------------------------------------------------------------------
(* C30: in a tick of runScheduledAnalysis over several active users a       *)
(* failure of generateSignal or of a store call for one user ends only      *)
(* that user's turn: the loop goes on with the next user, and the failing   *)
(* user's last analysis time is left as it was, so the rate limit that let  *)
(* the user through at this tick lets the user through at the next.         *)

\* The step is a call of the loop body that throws
SchedThrows ==
    /\ sched.pc \in {"count", "find", "generate"}
    /\ sched' # sched
    /\ \/ sched.pc = "generate" /\ lastCall'.outcome.kind = "throw"
       \/ sched'.pc = "rate" /\ sched'.log = "error"

----------------------------------------------------------------------------
(* C31: findPositionToClose returns, for a user and a pair, the OPEN        *)
(* position of that user and pair that was created first, and nothing when  *)
(* there is none; it never returns a position of another user, of another   *)
(* pair or with a status other than OPEN.                                   *)

\* The positions of the user and pair that are OPEN
OpenOf(userId, pair) ==
    {id \in 1..Len(positions) :
        /\ positions[id].userId = userId
        /\ positions[id].pair = pair
        /\ positions[id].status = "OPEN"}

C31_OldestOpenPicked ==
    [][(lastCall'.op = "findPositionToClose" /\ UNCHANGED positions) =>
          LET candidates == OpenOf(lastCall'.params.userId, lastCall'.params.pair)
              result == lastCall'.result
          IN  IF candidates = {} THEN result = None
              ELSE /\ result # None
                   /\ Val(result) \in candidates
                   /\ \A id \in candidates : Val(result) <= id]_vars

\* Two OPEN positions of the same user and pair: the first was returned
C31_Witness ==
    /\ lastCall.op = "findPositionToClose"
    /\ Len(positions) = 2
    /\ OpenOf(lastCall.params.userId, lastCall.params.pair) = {1, 2}
    /\ lastCall.result = Some(1)

----------------------------------------------------------------------------
(* C32: a request to approve or reject a PENDING signal whose validUntil    *)
(* has passed sets the signal to EXPIRED, is answered with an error, places *)
(* no exchange order and changes no position or tracked order; afterwards   *)
(* the signal never becomes APPROVED, REJECTED or EXECUTED.                 *)

C32_ExpiredIsFinal ==
    [][/\ \A q \in Requests :
            (approve[q].pc = "expire" /\ approve'[q] # approve[q]) =>
                /\ signals'[approve[q].id].status = "EXPIRED"
                /\ approve'[q] = Rejected(400)
                /\ UNCHANGED <<positions, trades, exchange>>
       /\ \A id \in 1..Len(signals) :
            signals[id].status = "EXPIRED" =>
                signals'[id].status \notin {"APPROVED", "REJECTED", "EXECUTED"}]_vars

----------------------------------------------------------------------------
(* C33: in a cycle of the position monitor a position whose pair has no     *)
(* price in the snapshot of the tickers, whose exit condition does not      *)
(* hold, or whose owner has no exchange credentials is left unchanged, no   *)
(* SELL is sent for it, and the cycle goes on with the next position.       *)

\* The position the run m is looking at is one the cycle passes over
MonitorSkips(m) ==
    LET run == monitor[m]
        position == positions[run.openPositions[run.i]]
        ticker == run.summaries[position.pair]
    IN  \/ ticker = None
        \/ checkExitConditions(position, Val(ticker)) = "NONE"
        \/ ~run.keys[position.userId]

\* C33: a step of a cycle at a position it passes over changes no row of
\* the store, sends nothing to the exchange, and leaves the run at the next
\* position of its snapshot (or at the end of the cycle after the last one)
C33_SkippedUntouched ==
    [][\A m \in MonitorRuns :
          (/\ monitor[m].pc = "loop"
           /\ monitor[m].openPositions # <<>>
           /\ monitor'[m] # monitor[m]
           /\ MonitorSkips(m)) =>
              LET run == monitor[m]
              IN  /\ UNCHANGED <<positions, trades, signals, exchange, closeWrites>>
                  /\ monitor'[m].pc \in {"loop", "idle"}
                  /\ run.i < Len(run.openPositions) =>
                        /\ monitor'[m].pc = "loop"
                        /\ monitor'[m].i = run.i + 1
                        /\ monitor'[m].openPositions = run.openPositions
                        /\ monitor'[m].summaries = run.summaries
                  /\ run.i = Len(run.openPositions) => monitor'[m] = IdleRun]_vars

\* A run has passed over its first position, whose stop loss or take profit
\* was triggered at the price the run read but whose owner has no
\* credentials, and is at its second; the first is as it was opened
C33_Witness ==
    \E m \in MonitorRuns :
        /\ monitor[m].pc = "loop"
        /\ monitor[m].i = 2
        /\ LET run == monitor[m]
               first == positions[run.openPositions[1]]
           IN  /\ first.status = "OPEN"
               /\ ~run.keys[first.userId]
               /\ run.summaries[first.pair] # None
               /\ checkExitConditions(first, Val(run.summaries[first.pair])) # "NONE"
               /\ closeWrites[run.openPositions[1]] = 0

----------------------------------------------------------------------------
(* C34: the order sync looks only at trades that were PLACED or PARTIAL     *)
(* with an exchange order id, maps the exchange's status filled to FILLED,  *)
(* partial to PARTIAL, cancelled to CANCELLED and anything else to PLACED,  *)
(* and when the mapped status is the trade's status it writes nothing.      *)

\* The exchange's status of the order a run holds, as line 193 takes it
GatewayStatus(order) ==
    IF order.status # None THEN Val(order.status)
    ELSE IF order.remain_idr = Some("0") THEN "filled" ELSE "open"

\* The local status the claim gives for a status of the exchange
MappedStatus(gw) ==
    IF gw = "filled" THEN "FILLED"
    ELSE IF gw = "partial" THEN "PARTIAL"
    ELSE IF gw = "cancelled" THEN "CANCELLED"
    ELSE "PLACED"

\* C34: every trade in the list of a run was read as PLACED or PARTIAL with
\* an order id; the step after getOrder's answer writes the mapped status to
\* that trade when it differs from the status read, and otherwise changes no
\* row, sends no notification and goes on to the next trade
C34_SyncMapsStatus ==
    [][\A r \in SyncRuns :
          /\ sync'[r].pc # "idle" =>
                \A k \in 1..Len(sync'[r].pendingTrades) :
                    LET item == sync'[r].pendingTrades[k]
                    IN  /\ item.trade.status \in {"PLACED", "PARTIAL"}
                        /\ item.trade.orderId # None
          /\ (sync[r].pc = "update" /\ sync'[r] # sync[r]) =>
                LET run == sync[r]
                    item == run.pendingTrades[run.i]
                    mapped == MappedStatus(GatewayStatus(run.order))
                IN  IF mapped = item.trade.status
                    THEN /\ UNCHANGED <<positions, trades, signals, lastCall>>
                         /\ sync'[r].pc \in {"query", "idle"}
                    ELSE /\ trades'[item.id].status = mapped
                         /\ \A id \in 1..Len(trades) :
                                id # item.id => trades'[id] = trades[id]]_vars

\* A trade an earlier cycle has set to PARTIAL is in the list of a run as
\* PARTIAL and the exchange has answered partial again
C34_Witness ==
    \E r \in SyncRuns :
        /\ sync[r].pc = "update"
        /\ LET item == sync[r].pendingTrades[sync[r].i]
           IN  /\ item.trade.status = "PARTIAL"
               /\ trades[item.id].status = "PARTIAL"
               /\ GatewayStatus(sync[r].order) = "partial"

----------------------------------------------------------------------------
(* C35: in a cycle of the order sync an error at one order (getOrder, a     *)
(* write to the store, openPosition) does not end the cycle: the orders     *)
(* after it in the list are still queried.                                  *)

\* The step goes on within the handling of the same trade
SyncAdvances(r) ==
    /\ sync'[r].pc \in {"update", "find", "open", "notify"}
    /\ sync'[r].pc # sync[r].pc
    /\ sync'[r].i = sync[r].i
    /\ sync'[r].pendingTrades = sync[r].pendingTrades

\* C35: whatever a step of a cycle does at a trade, the run stays at that
\* trade, or it is next at getOrder for the following trade of its list, or
\* the trade was the last of the list
C35_SyncFailureIsolated ==
    [][\A r \in SyncRuns :
          (sync[r].pc # "idle" /\ sync'[r] # sync[r]) =>
              LET run == sync[r]
              IN  \/ SyncAdvances(r)
                  \/ /\ run.i < Len(run.pendingTrades)
                     /\ sync'[r] = [pc |-> "query", pendingTrades |-> run.pendingTrades,
                                    i |-> run.i + 1]
                  \/ /\ run.i = Len(run.pendingTrades)
                     /\ sync'[r] = IdleRun]_vars

\* A cycle is at the answer of getOrder for its second trade while the
\* first, filled at the exchange since before the cycle, is still PLACED and
\* has no position: the handling of the first ended with an error
C35_Witness ==
    \E r \in SyncRuns :
        /\ sync[r].pc = "update"
        /\ sync[r].i = 2
        /\ Len(sync[r].pendingTrades) = 2
        /\ exchange[1] = "filled"
        /\ trades[1].status = "PLACED"
        /\ positions = <<>>

----------------------------------------------------------------------------
(* C36: POST /trades creates the trade as PENDING with no exchange order    *)
(* id; when the exchange accepts the order the trade becomes PLACED with    *)
(* the order id returned, when the call fails it becomes FAILED with no     *)
(* order id and the caller gets the error, and no cycle of the order sync   *)
(* selects or changes a FAILED trade.                                       *)

\* The trade id is in the list of the sync invocation r
Selected(r, id) ==
    /\ sync[r].pc # "idle"
    /\ \E k \in 1..Len(sync[r].pendingTrades) : sync[r].pendingTrades[k].id = id

\* C36: a new trade is PENDING without an order id; a step that takes a
\* trade out of PENDING sets it PLACED with the id of the order the exchange
\* accepted in that step and answers 201, or, the exchange having accepted
\* nothing, sets it FAILED without an order id and answers 500; a FAILED
\* trade without an order id is in no list of the order sync and stays as
\* it is
C36_ManualOrderOutcome ==
    [][/\ \A id \in 1..Len(trades') :
            id > Len(trades) =>
                trades'[id].status = "PENDING" /\ trades'[id].orderId = None
       /\ \A id \in 1..Len(trades) :
            /\ (trades[id].status = "PENDING" /\ trades'[id] # trades[id]) =>
                    IF Len(exchange') > Len(exchange)
                    THEN /\ trades'[id].status = "PLACED"
                         /\ trades'[id].orderId = Some(Len(exchange'))
                         /\ lastCall'.res = 201
                    ELSE /\ trades'[id].status = "FAILED"
                         /\ trades'[id].orderId = None
                         /\ lastCall'.res = 500
            /\ (trades[id].status = "FAILED" /\ trades[id].orderId = None) =>
                    /\ trades'[id] = trades[id]
                    /\ \A r \in SyncRuns : ~Selected(r, id)']_vars

----------------------------------------------------------------------------
(* C37: for every position at most one SELL order is placed at the exchange *)
(* for its exit, whatever the interleaving of overlapping cycles of the     *)
(* position monitor and an approval of a SELL signal for the same position. *)

\* The SELL orders the exchange has accepted so far: every one of them is
\* for the whole amount of the one position of the store
SellsAccepted == lastCall.sold \div OrchPosition.amount

\* C37: the exchange has accepted no more SELL orders than there are
\* positions
C37_OneSellPerPosition ==
    lastCall.op = "trade" => SellsAccepted <= Len(positions)

----------------------------------------------------------------------------
(* C38: in every reachable state the number of OPEN positions of a user is  *)
(* at most the user's maxOpenPositions, the limit being looked at when a    *)
(* signal is generated while signals and manual BUY orders fill later.      *)

\* C38: no user has more OPEN positions than the maxOpenPositions of the
\* user's settings
C38_WithinMaxOpenPositions ==
    \A userId \in Users :
        OpenPositionsCount(userId) <= settings[userId].maxOpenPositions

----------------------------------------------------------------------------
(* C39: after any sequence of startScheduler and stopScheduler calls,       *)
(* isSchedulerRunning() is true exactly when the three intervals (position  *)
(* monitor, order sync, analysis) are armed and false exactly when none is; *)
(* startScheduler calls the position monitor and the order sync once at     *)
(* once and does not call the analysis.                                     *)

\* isRunning goes with all the three intervals armed, its negation with none
RunningIffArmed ==
    IF orch.isRunning
    THEN \A fn \in CycleTypes : TimersOf(fn) # {}
    ELSE orch.timers = {}

\* C39: RunningIffArmed holds before and after every step, and a call of
\* startScheduler that finds the scheduler stopped leaves the analysis as it
\* is and starts at most one invocation of the position monitor and of the
\* order sync, each on the snapshot of the store at the call
C39_RunningIffArmed ==
    [][/\ RunningIffArmed
       /\ RunningIffArmed'
       /\ (StartCalled /\ ~orch.isRunning) =>
            /\ orch'.isRunning
            /\ sched' = sched
            /\ monitor' \in {monitor, [monitor EXCEPT ![FreeRun(monitor)] = MonitorSnapshot]}
            /\ sync' \in {sync, [sync EXCEPT ![FreeRun(sync)] = SyncSnapshot]}]_vars

\* startScheduler has just been called on a stopped scheduler: the three
\* intervals are armed, an invocation of the position monitor and one of
\* the order sync hold their snapshots, and the analysis has not begun
C39_Witness ==
    /\ orch.call.op = "start"
    /\ ~orch.call.wasRunning
    /\ orch.isRunning
    /\ \A fn \in CycleTypes : Cardinality(TimersOf(fn)) = 1
    /\ \E m \in MonitorRuns : monitor[m].pc = "loop" /\ monitor[m].i = 1
    /\ \E r \in SyncRuns : sync[r].pc = "query" /\ sync[r].i = 1
    /\ sched.pc = "idle"
    /\ lastAnalysisTime = [u \in Users |-> 0]

----------------------------------------------------------------------------
(* C40: holdings are conserved: for every user and pair the amounts of the  *)
(* OPEN positions plus the exit amounts on record add up to the amounts of  *)
(* all the positions ever created, so that what is left of a                *)
(* PARTIALLY_CLOSED position is still counted in the bot's holdings.        *)

\* The exit amounts on record for the user's positions of the pair
TotalExited(userId, pair) ==
    LET ids == SelectSeq(Ids(positions),
                  LAMBDA i : /\ positions[i].userId = userId
                             /\ positions[i].pair = pair
                             /\ positions[i].exitAmount # None)
    IN  SumSeq([i \in 1..Len(ids) |-> Val(positions[ids[i]].exitAmount)])

\* C40: what getBotPositionAmount counts and what was recorded as sold add
\* up to what was bought
C40_HoldingsConserved ==
    \A userId \in Users, pair \in Pairs :
        getBotPositionAmount(userId, pair) + TotalExited(userId, pair)
            = TotalBought(userId, pair)

====
